---- MODULE Spec2Model ----
(***************************************************************************)
(* Splatoon 3 Rotation Tracker: the background service worker's fetch      *)
(* cycle (fetchAllData), its schedulers and selectors, as a state machine. *)
(*                                                                         *)
(* Time is counted in whole minutes.  An ISO time string of the feed is    *)
(* modelled by the minute it denotes; Missing stands for an absent         *)
(* (undefined / null / empty) field, BadDate for a string that Date cannot *)
(* parse.  NaN is the millisecond value of an unparseable Date.            *)
(***************************************************************************)
EXTENDS Integers, Sequences, FiniteSets, TLC

VARIABLES clock,      \* Date.now(), in minutes
          local,      \* chrome.storage.local (with ghost write ids)
          prefs,      \* chrome.storage.sync
          alarms,     \* chrome.alarms: name -> due time or NotArmed
          notes,      \* chrome.notifications created so far, as a set of ids
          cyc,        \* the invocations of fetchAllData, one record per slot
          last,       \* ghost: summary of the invocation that returned last
          writeSeq,   \* ghost: number of storage.local.set calls landed
          pin,        \* input of the pure function under check
          pout,       \* its result
          popup       \* the popup page: its script's variables and its view

vars ==
  <<clock, local, prefs, alarms, notes, cyc, last, writeSeq, pin, pout, popup>>

(***************************************************************************)
(* Bounds                                                                  *)
(***************************************************************************)
MaxT == 2          \* selector inputs: node times range over 0..MaxT + 1
MaxEnd == 2        \* stored snapshots: current.endTime ranges over 1..MaxEnd
MaxLen == 3        \* longest node list handed to a selector
MaxTime == 2       \* the clock ticks minute by minute up to MaxTime
MaxAlarmTime == 32 \* an alarm due later than this is not delivered
MaxWrites == 2     \* storage.local.set calls in one behaviour
MaxStart == 1      \* notification inputs: current.startTime in 0..MaxStart
SkipT == 1         \* lists with a malformed node: times range over 0..SkipT + 1
MaxPending == 2    \* fetchRotations requests of the popup awaiting their reply
MaxCoop == 2       \* coop inputs: each of the two lists holds 0..MaxCoop nodes

(***************************************************************************)
(* Dates                                                                   *)
(***************************************************************************)
Missing == -1
BadDate == -2
NaN == -3

Max(a, b) == IF a >= b THEN a ELSE b

\* !x for a time field: absent fields are falsy, every string is truthy
Truthy(t) == t # Missing

\* new Date(t).getTime()
DateMs(t) == IF t >= 0 THEN t ELSE NaN

\* comparisons of millisecond values: every comparison with NaN is false
NumLt(a, b) == a # NaN /\ b # NaN /\ a < b
NumLe(a, b) == a # NaN /\ b # NaN /\ a <= b
NumGt(a, b) == NumLt(b, a)

Null == [kind |-> "null"]
Throw == [kind |-> "throw"]
EmptyState == [current |-> Null, next |-> Null]

(***************************************************************************)
(* Array.prototype.sort((a, b) => new Date(a.startTime) -                  *)
(*                                new Date(b.startTime))                   *)
(* A feed node is a record [shape, startTime, endTime, rule]; shape is     *)
(* "ok", "null" (the list entry is null) or "badStage" (vsStages holds a   *)
(* null, so that mapping the stages throws).                               *)
(***************************************************************************)
SortKey(node) == IF node.shape = "null" THEN NaN ELSE DateMs(node.startTime)

\* mutant: x goes in front of the elements with an equal key (the sort is
\* not stable)
RECURSIVE InsertBeforeEqual(_, _)
InsertBeforeEqual(s, x) ==
  IF s = <<>> THEN <<x>>
  ELSE IF SortKey(x) <= SortKey(Head(s)) THEN <<x>> \o s
  ELSE <<Head(s)>> \o InsertBeforeEqual(Tail(s), x)

\* x put into the ascending sequence s behind every element whose key is
\* not greater
RECURSIVE InsertByKey(_, _)
InsertByKey(s, x) ==
  IF s = <<>> THEN <<x>>
  ELSE IF SortKey(x) < SortKey(Head(s)) THEN <<x>> \o s
  ELSE <<Head(s)>> \o InsertByKey(Tail(s), x)

\* the stable ascending order, defined when every key is a number
RECURSIVE StableSort(_)
StableSort(s) ==
  IF s = <<>> THEN <<>>
  ELSE InsertByKey(StableSort(SubSeq(s, 1, Len(s) - 1)), s[Len(s)])

\* x put at position k of s
InsertAt(s, k, x) == SubSeq(s, 1, k - 1) \o <<x>> \o SubSeq(s, k, Len(s))

\* every order the elements of s can be put in
RECURSIVE Reorderings(_)
Reorderings(s) ==
  IF s = <<>> THEN {<<>>}
  ELSE UNION {{InsertAt(p, k, Head(s)) : k \in 1..Len(s)} :
                p \in Reorderings(Tail(s))}

\* The comparator dereferences its arguments, so a null entry makes it
\* throw as soon as it is called (two or more elements).
SortThrows(s) == Len(s) >= 2 /\ \E i \in 1..Len(s) : s[i].shape = "null"

\* mutant: nodes with equal keys come out in either order
SortByStartAnyTies(s) ==
  IF \A i \in 1..Len(s) : SortKey(s[i]) # NaN
    THEN {r \in Reorderings(s) :
            \A i \in 1..(Len(r) - 1) : SortKey(r[i]) <= SortKey(r[i + 1])}
  ELSE Reorderings(s)

\* The results the sort can have.  A NaN key makes the comparator
\* inconsistent, and the order is then implementation-defined: any
\* permutation.
SortByStart(s) ==
  IF \A i \in 1..Len(s) : SortKey(s[i]) # NaN THEN {StableSort(s)}
  ELSE Reorderings(s)

(***************************************************************************)
(* findCurrentAndNext / findCurrentAndNextAnarchy                          *)
(***************************************************************************)
\* what the loop body stores for a node: its times and the extracted rule
ProcessedNode(node) ==
  [startTime |-> node.startTime, endTime |-> node.endTime, rule |-> node.rule]

\* mutant: the window is closed at its end (endMs >= nowMs)
ScanStepClosed(acc, node, nowMs) ==
  IF node.shape = "null" THEN acc
  ELSE IF ~Truthy(node.startTime) \/ ~Truthy(node.endTime) THEN acc
  ELSE IF node.shape = "badStage" THEN acc
  ELSE LET startMs == DateMs(node.startTime)
           endMs == DateMs(node.endTime)
       IN IF NumLe(startMs, nowMs) /\ NumLe(nowMs, endMs)
            THEN [acc EXCEPT !.current = ProcessedNode(node)]
          ELSE IF /\ NumGt(startMs, nowMs)
                  /\ \/ acc.next = Null
                     \/ NumLt(startMs, DateMs(acc.next.startTime))
            THEN [acc EXCEPT !.next = ProcessedNode(node)]
          ELSE acc

\* mutant: a current that is set is kept (&& !current, as in the event loop)
ScanStepFirstWins(acc, node, nowMs) ==
  IF node.shape = "null" THEN acc
  ELSE IF ~Truthy(node.startTime) \/ ~Truthy(node.endTime) THEN acc
  ELSE IF node.shape = "badStage" THEN acc
  ELSE LET startMs == DateMs(node.startTime)
           endMs == DateMs(node.endTime)
       IN IF NumLe(startMs, nowMs) /\ NumGt(endMs, nowMs) /\ acc.current = Null
            THEN [acc EXCEPT !.current = ProcessedNode(node)]
          ELSE IF /\ NumGt(startMs, nowMs)
                  /\ \/ acc.next = Null
                     \/ NumLt(startMs, DateMs(acc.next.startTime))
            THEN [acc EXCEPT !.next = ProcessedNode(node)]
          ELSE acc

\* mutant: a node that starts at now can become next (startMs >= nowMs)
ScanStepNextFromNow(acc, node, nowMs) ==
  IF node.shape = "null" THEN acc
  ELSE IF ~Truthy(node.startTime) \/ ~Truthy(node.endTime) THEN acc
  ELSE IF node.shape = "badStage" THEN acc
  ELSE LET startMs == DateMs(node.startTime)
           endMs == DateMs(node.endTime)
       IN IF NumLe(startMs, nowMs) /\ NumGt(endMs, nowMs)
            THEN [acc EXCEPT !.current = ProcessedNode(node)]
          ELSE IF /\ NumLe(nowMs, startMs)
                  /\ \/ acc.next = Null
                     \/ NumLt(startMs, DateMs(acc.next.startTime))
            THEN [acc EXCEPT !.next = ProcessedNode(node)]
          ELSE acc

\* one iteration of the for loop (the try block and its catch)
ScanStep(acc, node, nowMs) ==
  IF node.shape = "null" THEN acc                       \* node.startTime throws
  ELSE IF ~Truthy(node.startTime) \/ ~Truthy(node.endTime) THEN acc
  ELSE IF node.shape = "badStage" THEN acc              \* stage.name throws
  ELSE LET startMs == DateMs(node.startTime)
           endMs == DateMs(node.endTime)
       IN IF NumLe(startMs, nowMs) /\ NumGt(endMs, nowMs)
            THEN [acc EXCEPT !.current = ProcessedNode(node)]
          ELSE IF /\ NumGt(startMs, nowMs)
                  /\ \/ acc.next = Null
                     \/ NumLt(startMs, DateMs(acc.next.startTime))
            THEN [acc EXCEPT !.next = ProcessedNode(node)]
          ELSE acc

RECURSIVE ScanFrom(_, _, _, _)
ScanFrom(sorted, i, acc, nowMs) ==
  IF i > Len(sorted) THEN acc
  ELSE ScanFrom(sorted, i + 1, ScanStep(acc, sorted[i], nowMs), nowMs)

\* the set of results of findCurrentAndNext(nodes, now, mode): one per
\* outcome of the sort; Throw when the sort throws
findCurrentAndNext(nodes, now) ==
  IF Len(nodes) = 0 THEN {EmptyState}
  ELSE IF SortThrows(nodes) THEN {Throw}
  ELSE {ScanFrom(sorted, 1, EmptyState, now) : sorted \in SortByStart(nodes)}

\* the anarchy variant differs in the payload it extracts (series / open);
\* extractAnarchyMode maps the stages as well, so a null stage throws there
findCurrentAndNextAnarchy(nodes, now) == findCurrentAndNext(nodes, now)

(***************************************************************************)
(* processEventSchedules: an event is [hasEvent, name, shape, timePeriods] *)
(* where timePeriods is a sequence of [startTime, endTime].  No sort, no   *)
(* try/catch: a null event or a null stage throws out of the function.     *)
(***************************************************************************)
ProcessedEvent(event, period) ==
  [startTime |-> period.startTime, endTime |-> period.endTime,
   rule |-> event.name]

\* mutant: the period is closed at its end (endMs >= nowMs)
PeriodStepClosed(acc, event, period, nowMs) ==
  IF ~Truthy(period.startTime) \/ ~Truthy(period.endTime) THEN acc
  ELSE LET startMs == DateMs(period.startTime)
           endMs == DateMs(period.endTime)
       IN IF NumLe(startMs, nowMs) /\ NumLe(nowMs, endMs) /\ acc.current = Null
            THEN [acc EXCEPT !.current = ProcessedEvent(event, period)]
          ELSE IF /\ NumGt(startMs, nowMs)
                  /\ \/ acc.next = Null
                     \/ NumLt(startMs, DateMs(acc.next.startTime))
            THEN [acc EXCEPT !.next = ProcessedEvent(event, period)]
          ELSE acc

PeriodStep(acc, event, period, nowMs) ==
  IF ~Truthy(period.startTime) \/ ~Truthy(period.endTime) THEN acc
  ELSE LET startMs == DateMs(period.startTime)
           endMs == DateMs(period.endTime)
       IN IF NumLe(startMs, nowMs) /\ NumGt(endMs, nowMs) /\ acc.current = Null
            THEN [acc EXCEPT !.current = ProcessedEvent(event, period)]
          ELSE IF /\ NumGt(startMs, nowMs)
                  /\ \/ acc.next = Null
                     \/ NumLt(startMs, DateMs(acc.next.startTime))
            THEN [acc EXCEPT !.next = ProcessedEvent(event, period)]
          ELSE acc

\* mutant: only the first time period of an event is looked at
PeriodsFromFirstOnly(event, j, acc, nowMs) ==
  IF j > 1 \/ Len(event.timePeriods) = 0 THEN acc
  ELSE PeriodStep(acc, event, event.timePeriods[1], nowMs)

RECURSIVE PeriodsFrom(_, _, _, _)
PeriodsFrom(event, j, acc, nowMs) ==
  IF j > Len(event.timePeriods) THEN acc
  ELSE PeriodsFrom(event, j + 1,
                   PeriodStep(acc, event, event.timePeriods[j], nowMs), nowMs)

RECURSIVE EventsFrom(_, _, _, _)
EventsFrom(events, i, acc, nowMs) ==
  IF i > Len(events) THEN acc
  ELSE IF events[i].shape = "null" THEN Throw
  ELSE IF ~events[i].hasEvent THEN EventsFrom(events, i + 1, acc, nowMs)
  ELSE IF events[i].shape = "badStage" THEN Throw
  ELSE EventsFrom(events, i + 1, PeriodsFrom(events[i], 1, acc, nowMs), nowMs)

processEventSchedules(events, now) == EventsFrom(events, 1, EmptyState, now)

(***************************************************************************)
(* The feed.  data is [root, regularSchedules, bankaraSchedules,           *)
(* xSchedules, eventSchedules, coop, currentFest, festSchedules]; root     *)
(* tells whether data.data exists.  A schedule key is [shape, nodes] with  *)
(* shape "absent" (no such key), "list" (nodes is an array),               *)
(* "nodesMissing" (the key is there, nodes is undefined or null) or        *)
(* "nodesObject" (nodes is a non-iterable object).  coop is NoCoop or      *)
(* [regularSchedules, bigRunSchedules].                                    *)
(***************************************************************************)
AbsentKey == [shape |-> "absent", nodes |-> <<>>]
ListOf(ns) == [shape |-> "list", nodes |-> ns]
NoCoop == [kind |-> "absent"]
Absent == [kind |-> "absent"]

TwoHours == 120
FourHours == 240
TwelveHours == 720
ThirtySixHours == 2160
SixtyHours == 3600

\* mutant: a key that is not there is rejected as well
BadKeyOrAbsent(k) == k.shape # "list"

\* d[key] && !Array.isArray(d[key].nodes)
BadKey(k) == k.shape \in {"nodesMissing", "nodesObject"}

validateApiResponse(data) ==
  /\ data.root
  /\ ~BadKey(data.regularSchedules)
  /\ ~BadKey(data.bankaraSchedules)
  /\ ~BadKey(data.xSchedules)
  /\ data.coop # NoCoop =>
       /\ ~BadKey(data.coop.regularSchedules)
       /\ ~BadKey(data.coop.bigRunSchedules)

\* the first festSchedules node with settings that starts after now
RECURSIVE FestFrom(_, _, _)
FestFrom(nodes, i, now) ==
  IF i > Len(nodes) THEN Null
  ELSE IF nodes[i].hasSettings /\ NumGt(DateMs(nodes[i].startTime), now)
    THEN [title |-> "Upcoming Splatfest", state |-> "SCHEDULED",
          startTime |-> nodes[i].startTime, endTime |-> nodes[i].endTime,
          teams |-> 0]
  ELSE FestFrom(nodes, i + 1, now)

\* currentFest is Null or [startTime, endTime, teams] (teams: their number)
processSplatfestData(data, now) ==
  IF data.currentFest # Null
    THEN [title |-> "Splatfest", state |-> "ACTIVE",
          startTime |-> data.currentFest.startTime,
          endTime |-> data.currentFest.endTime,
          teams |-> data.currentFest.teams]
  ELSE IF data.festSchedules.shape = "nodesObject" THEN Throw
  ELSE FestFrom(data.festSchedules.nodes, 1, now)

createTestData(now) ==
  [regular |->
     [current |-> [startTime |-> now, endTime |-> now + TwoHours,
                   rule |-> "Turf War"],
      next |-> [startTime |-> now + TwoHours, endTime |-> now + FourHours,
                rule |-> "Turf War"]],
   anarchy |->
     [current |-> [startTime |-> now, endTime |-> now + TwoHours,
                   rule |-> "Splat Zones"],
      next |-> [startTime |-> now + TwoHours, endTime |-> now + FourHours,
                rule |-> "Tower Control"]],
   xbattle |->
     [current |-> [startTime |-> now, endTime |-> now + TwoHours,
                   rule |-> "Clam Blitz"],
      next |-> [startTime |-> now + TwoHours, endTime |-> now + FourHours,
                rule |-> "Rainmaker"]],
   challenge |-> Absent,
   splatfest |-> Absent]

\* The results processRotationData(data) can have at instant now: Null
\* when validation fails or anything inside the try block throws.
\* A key's nodes are processed when data.data.<key>?.nodes is truthy.
processRotationData(data, now) ==
  IF ~validateApiResponse(data) THEN {Null}
  ELSE
    LET Sel(k, F(_, _)) == IF k.shape = "list" THEN F(k.nodes, now)
                           ELSE {EmptyState}
        ev == data.eventSchedules
        chal == IF ev.shape = "list" THEN processEventSchedules(ev.nodes, now)
                ELSE IF ev.shape = "nodesObject" THEN Throw
                ELSE EmptyState
        fest == processSplatfestData(data, now)
    IN {IF Throw \in {r, a, x, chal, fest} THEN Null
        ELSE [regular |-> r, anarchy |-> a, xbattle |-> x,
              challenge |-> chal, splatfest |-> fest] :
          r \in Sel(data.regularSchedules, findCurrentAndNext),
          a \in Sel(data.bankaraSchedules, findCurrentAndNextAnarchy),
          x \in Sel(data.xSchedules, findCurrentAndNext)}

(***************************************************************************)
(* processSalmonRunData.  A coop node is [shape, startTime, endTime, rule] *)
(* with shape "ok", "null" or "badWeapons" (setting.weapons is not an      *)
(* array, so that .map throws); rule carries the stage name.               *)
(***************************************************************************)
createSalmonRunTestData(now) ==
  [current |-> [startTime |-> now, endTime |-> now + TwelveHours,
                rule |-> "Gone Fission Hydroplant", isBigRun |-> FALSE],
   next |-> [startTime |-> now + ThirtySixHours, endTime |-> now + SixtyHours,
             rule |-> "Spawning Grounds", isBigRun |-> FALSE]]

\* mutant: the push loops keep the nodes that lack a time
RECURSIVE PushFromUnfiltered(_, _, _)
PushFromUnfiltered(nodes, i, big) ==
  IF i > Len(nodes) THEN <<>>
  ELSE LET n == nodes[i]
           rest == PushFromUnfiltered(nodes, i + 1, big)
       IN IF n.shape = "null" THEN rest
          ELSE <<[shape |-> n.shape, startTime |-> n.startTime,
                  endTime |-> n.endTime, rule |-> n.rule,
                  isBigRun |-> big]>> \o rest

\* mutant: every pushed schedule is tagged as a regular one
RECURSIVE PushFromUntagged(_, _, _)
PushFromUntagged(nodes, i, big) ==
  IF i > Len(nodes) THEN <<>>
  ELSE LET n == nodes[i]
           rest == PushFromUntagged(nodes, i + 1, big)
       IN IF n.shape = "null" \/ ~Truthy(n.startTime) \/ ~Truthy(n.endTime)
            THEN rest
          ELSE <<[shape |-> n.shape, startTime |-> n.startTime,
                  endTime |-> n.endTime, rule |-> n.rule,
                  isBigRun |-> FALSE]>> \o rest

\* the two push loops: nodes without both times are left out
RECURSIVE PushFrom(_, _, _)
PushFrom(nodes, i, big) ==
  IF i > Len(nodes) THEN <<>>
  ELSE LET n == nodes[i]
           rest == PushFrom(nodes, i + 1, big)
       IN IF n.shape = "null" \/ ~Truthy(n.startTime) \/ ~Truthy(n.endTime)
            THEN rest
          ELSE <<[shape |-> n.shape, startTime |-> n.startTime,
                  endTime |-> n.endTime, rule |-> n.rule,
                  isBigRun |-> big]>> \o rest

\* step 4: the scan of the sorted list, with its break
RECURSIVE SalmonScan(_, _, _, _)
SalmonScan(sorted, i, acc, nowMs) ==
  IF i > Len(sorted) THEN acc
  ELSE LET sch == [startTime |-> sorted[i].startTime,
                   endTime |-> sorted[i].endTime,
                   rule |-> sorted[i].rule, isBigRun |-> sorted[i].isBigRun]
           startMs == DateMs(sch.startTime)
           endMs == DateMs(sch.endTime)
       IN IF NumLe(startMs, nowMs) /\ NumGt(endMs, nowMs)
            THEN SalmonScan(sorted, i + 1, [acc EXCEPT !.current = sch], nowMs)
          ELSE IF NumGt(startMs, nowMs)
            THEN IF acc.next = Null
                   THEN SalmonScan(sorted, i + 1,
                                   [acc EXCEPT !.next = sch], nowMs)
                 ELSE acc
          ELSE SalmonScan(sorted, i + 1, acc, nowMs)

\* mutant: without a current and a next the empty pair is returned
SalmonResultNoFallback(r, now) == r

\* lines 905-911: without a current and a next the synthetic data is
\* returned
SalmonResult(r, now) ==
  IF r.current = Null /\ r.next = Null THEN createSalmonRunTestData(now) ELSE r

\* the results of processSalmonRunData(data) at instant now; Throw when it
\* throws (iterating a non-iterable nodes value, mapping a non-array)
processSalmonRunData(data, now) ==
  IF ~data.root \/ data.coop = NoCoop THEN {createSalmonRunTestData(now)}
  ELSE IF \/ data.coop.bigRunSchedules.shape = "nodesObject"
          \/ data.coop.regularSchedules.shape = "nodesObject"
    THEN {Throw}
  ELSE
    LET all == PushFrom(data.coop.bigRunSchedules.nodes, 1, TRUE)
                 \o PushFrom(data.coop.regularSchedules.nodes, 1, FALSE)
    IN IF \E i \in 1..Len(all) : all[i].shape = "badWeapons" THEN {Throw}
       ELSE {SalmonResult(SalmonScan(sorted, 1, EmptyState, now), now) :
               sorted \in SortByStart(all)}

(***************************************************************************)
(* Snapshots.  rotationData is Null (nothing stored) or a record with the  *)
(* keys regular, anarchy, xbattle, challenge, splatfest, salmon; a key the *)
(* object does not have (challenge and splatfest of the synthetic data) is *)
(* Absent.                                                                 *)
(***************************************************************************)
\* rotationData?.[mode]?.current and ...?.next
CurrentOf(rd, mode) ==
  IF rd = Null \/ rd[mode] = Absent THEN Null ELSE rd[mode].current

NextOf(rd, mode) ==
  IF rd = Null \/ rd[mode] = Absent THEN Null ELSE rd[mode].next

ValidityModes == <<"regular", "anarchy", "xbattle", "salmon">>

\* mutant: a next counts only while it has not started
isDataStillValidUpcoming(rotationData, now) ==
  \/ \E i \in 1..Len(ValidityModes) :
       LET current == CurrentOf(rotationData, ValidityModes[i])
       IN /\ current # Null
          /\ Truthy(current.endTime)
          /\ NumGt(DateMs(current.endTime), now)
  \/ \E i \in 1..Len(ValidityModes) :
       LET next == NextOf(rotationData, ValidityModes[i])
       IN /\ next # Null /\ Truthy(next.startTime)
          /\ NumGt(DateMs(next.startTime), now)

isDataStillValid(rotationData, now) ==
  \/ \E i \in 1..Len(ValidityModes) :
       LET current == CurrentOf(rotationData, ValidityModes[i])
       IN /\ current # Null
          /\ Truthy(current.endTime)
          /\ NumGt(DateMs(current.endTime), now)
  \/ \E i \in 1..Len(ValidityModes) :
       LET next == NextOf(rotationData, ValidityModes[i])
       IN next # Null /\ Truthy(next.startTime)

(***************************************************************************)
(* scheduleNextRefresh                                                     *)
(***************************************************************************)
REFRESH_INTERVAL == 30
RetryDelay == 5
RefreshBuffer == 1
NotArmed == -1

ScheduleModes == <<"regular", "anarchy", "xbattle", "challenge", "salmon">>

\* mutant: the loop keeps the last future boundary, not the earliest
RECURSIVE NextRefreshLast(_, _, _, _)
NextRefreshLast(rotationData, i, nextRefreshTime, now) ==
  IF i > Len(ScheduleModes) THEN nextRefreshTime
  ELSE
    LET current == CurrentOf(rotationData, ScheduleModes[i])
        refreshTime == DateMs(current.endTime) + RefreshBuffer
        upd == IF /\ current # Null
                  /\ Truthy(current.endTime)
                  /\ DateMs(current.endTime) # NaN
                  /\ refreshTime > now
                 THEN refreshTime ELSE nextRefreshTime
    IN NextRefreshLast(rotationData, i + 1, upd, now)

\* the for loop: nextRefreshTime after the modes from i on (NotArmed: null)
RECURSIVE NextRefreshFrom(_, _, _, _)
NextRefreshFrom(rotationData, i, nextRefreshTime, now) ==
  IF i > Len(ScheduleModes) THEN nextRefreshTime
  ELSE
    LET current == CurrentOf(rotationData, ScheduleModes[i])
        refreshTime == DateMs(current.endTime) + RefreshBuffer
        upd == IF /\ current # Null
                  /\ Truthy(current.endTime)
                  /\ DateMs(current.endTime) # NaN
                  /\ refreshTime > now
                  /\ (nextRefreshTime = NotArmed \/ refreshTime < nextRefreshTime)
                 THEN refreshTime ELSE nextRefreshTime
    IN NextRefreshFrom(rotationData, i + 1, upd, now)

\* the alarms after scheduleNextRefresh(rotationData) ran at instant now
scheduleNextRefresh(rotationData, now, al) ==
  LET nextRefreshTime == NextRefreshFrom(rotationData, 1, NotArmed, now)
      cleared == [al EXCEPT !.smartRefresh = NotArmed]
  IN IF nextRefreshTime # NotArmed
       THEN [cleared EXCEPT !.smartRefresh = nextRefreshTime]
     ELSE [cleared EXCEPT !.refreshRotations = now + REFRESH_INTERVAL]

(***************************************************************************)
(* sendRotationNotifications                                               *)
(***************************************************************************)
NotifyModes ==
  <<[key |-> "regular", setting |-> "notifyRegular"],
    [key |-> "anarchy", setting |-> "notifyAnarchy"],
    [key |-> "xbattle", setting |-> "notifyXbattle"],
    [key |-> "salmon", setting |-> "notifySalmon"]>>

\* mutant: a mode without an old current never counts as new
isNewRotationNeedsOld(newCurrent, oldCurrent) ==
  IF newCurrent = Null THEN FALSE
  ELSE IF oldCurrent = Null THEN FALSE
  ELSE newCurrent.startTime # oldCurrent.startTime

isNewRotation(newCurrent, oldCurrent) ==
  IF newCurrent = Null THEN FALSE
  ELSE IF oldCurrent = Null THEN TRUE
  ELSE newCurrent.startTime # oldCurrent.startTime

\* a stored preference is "true", "false" or "undefined"
\* the ids of the notifications one call creates
sendRotationNotifications(newRotations, oldRotations, settings) ==
  IF settings.enableNotifications # "true" THEN {}
  ELSE {<<NotifyModes[i].key,
          CurrentOf(newRotations, NotifyModes[i].key).startTime>> :
          i \in {j \in 1..Len(NotifyModes) :
                   /\ settings[NotifyModes[j].setting] = "true"
                   /\ isNewRotation(CurrentOf(newRotations, NotifyModes[j].key),
                                    CurrentOf(oldRotations, NotifyModes[j].key))}}

(***************************************************************************)
(* The fetch cycle as a state machine                                      *)
(***************************************************************************)
\* two invocations can overlap (an alarm and a message, two messages)
Cycles == {1, 2}

Node(st, en, rule) ==
  [shape |-> "ok", startTime |-> st, endTime |-> en, rule |-> rule]

EmptyFeed ==
  [root |-> TRUE, regularSchedules |-> AbsentKey,
   bankaraSchedules |-> AbsentKey, xSchedules |-> AbsentKey,
   eventSchedules |-> AbsentKey, coop |-> NoCoop, currentFest |-> Null,
   festSchedules |-> AbsentKey]

Coop(reg, big) == [regularSchedules |-> reg, bigRunSchedules |-> big]

\* the feeds the endpoint can answer with
Feeds ==
  { \* one regular and one coop window, both current until minute 1
    [EmptyFeed EXCEPT
       !.regularSchedules = ListOf(<<Node(0, 1, "Turf War")>>),
       !.coop = Coop(ListOf(<<Node(0, 1, "Sockeye Station")>>), AbsentKey)],
    \* nothing but an upcoming coop window
    [EmptyFeed EXCEPT
       !.coop = Coop(ListOf(<<Node(2, 3, "Spawning Grounds")>>), AbsentKey)],
    \* no root data object
    [EmptyFeed EXCEPT !.root = FALSE],
    \* a battle key whose nodes is not a list
    [EmptyFeed EXCEPT
       !.regularSchedules = [shape |-> "nodesObject", nodes |-> <<>>],
       !.coop = Coop(ListOf(<<Node(0, 1, "Sockeye Station")>>), AbsentKey)],
    \* a coop key whose nodes is not a list
    [EmptyFeed EXCEPT
       !.regularSchedules = ListOf(<<Node(0, 1, "Turf War")>>),
       !.coop = Coop([shape |-> "nodesObject", nodes |-> <<>>], AbsentKey)] }

\* began is a ghost: the number of writes landed when the invocation
\* started.  The ghost ioBegan of local is the began of the invocation
\* that wrote isOffline last (for the write of a snapshot, its own number).
IdleCycle ==
  [pc |-> "idle", trigger |-> "none", old |-> Null, new |-> Null,
   stamp |-> Missing, fetchOk |-> FALSE, feedValid |-> FALSE,
   persisted |-> FALSE, armed |-> "none", wroteOffline |-> FALSE,
   cachedValid |-> FALSE, same |-> {}, began |-> 0]

\* ghost: what the cycle that returned last did
NoneYet ==
  [trigger |-> "none", fetchOk |-> FALSE, feedValid |-> FALSE,
   persisted |-> FALSE, armed |-> "none", wroteOffline |-> FALSE,
   cachedValid |-> FALSE, notified |-> FALSE, result |-> FALSE,
   replied |-> FALSE, reply |-> FALSE]

InFlight(c) == cyc[c].pc # "idle"

PrefsUnset ==
  [enableNotifications |-> "undefined", notifyRegular |-> "undefined",
   notifyAnarchy |-> "undefined", notifyXbattle |-> "undefined",
   notifySalmon |-> "undefined"]

PrefsAllOn ==
  [enableNotifications |-> "true", notifyRegular |-> "true",
   notifyAnarchy |-> "true", notifyXbattle |-> "true",
   notifySalmon |-> "true"]

NoPure == [fn |-> "none"]

\* no popup page is open
NoPopup == [open |-> FALSE]

Init ==
  /\ clock = 0
  /\ local = [rotationData |-> Null, lastUpdated |-> Missing,
              isOffline |-> "undefined",
              rdWrite |-> 0, luWrite |-> 0, ioWrite |-> 0, ioBegan |-> 0,
              lastTab |-> "unset"]
  /\ prefs \in {PrefsUnset, PrefsAllOn}
  /\ alarms = [smartRefresh |-> NotArmed, refreshRotations |-> NotArmed]
  /\ notes = {}
  /\ cyc = [c \in Cycles |-> IdleCycle]
  /\ last = NoneYet
  /\ writeSeq = 0
  /\ pin = NoPure
  /\ pout = NoPure
  /\ popup = NoPopup

\* fetchAllData() is called: the read of the previous snapshot is issued
\* (lines 301-306).  The invocation takes the first free slot.
StartCycle(c, trigger) ==
  /\ ~InFlight(c)
  /\ \A d \in Cycles : d < c => InFlight(d)
  /\ writeSeq + Cardinality({d \in Cycles : InFlight(d)}) < MaxWrites
  /\ cyc' = [cyc EXCEPT ![c] =
               [IdleCycle EXCEPT !.pc = "fetching", !.trigger = trigger,
                                 !.old = local.rotationData,
                                 !.began = writeSeq]]

\* the popup sends { action: 'fetchRotations' }
Message(c) ==
  /\ StartCycle(c, "message")
  /\ UNCHANGED <<clock, local, prefs, alarms, notes, last, writeSeq, pin, pout, popup>>

\* chrome.alarms delivers a due alarm, at its time or later
AlarmFires(c, name) ==
  /\ alarms[name] # NotArmed
  /\ alarms[name] <= MaxAlarmTime
  /\ clock' = Max(clock, alarms[name])
  /\ alarms' = [alarms EXCEPT ![name] = NotArmed]
  /\ StartCycle(c, "alarm")
  /\ UNCHANGED <<local, prefs, notes, last, writeSeq, pin, pout, popup>>

Tick ==
  /\ clock < MaxTime
  /\ clock' = clock + 1
  /\ UNCHANGED <<local, prefs, alarms, notes, cyc, last, writeSeq, pin, pout, popup>>

\* the fetch resolves with a 2xx response and a JSON body; both processors
\* run and storage.local.set is issued (lines 309-328); a throw enters the
\* catch block, which issues its read of the cache (line 344)
FetchOk(c, feed) ==
  /\ cyc[c].pc = "fetching"
  /\ \E b \in processRotationData(feed, clock),
        sd \in processSalmonRunData(feed, clock) :
       LET battleData == IF b = Null THEN createTestData(clock) ELSE b
       IN IF sd = Throw
            THEN cyc' = [cyc EXCEPT ![c].pc = "failed", ![c].fetchOk = TRUE,
                                    ![c].feedValid = validateApiResponse(feed)]
          ELSE cyc' = [cyc EXCEPT
                 ![c].pc = "persisting", ![c].fetchOk = TRUE,
                 ![c].feedValid = validateApiResponse(feed),
                 ![c].new = [regular |-> battleData.regular,
                             anarchy |-> battleData.anarchy,
                             xbattle |-> battleData.xbattle,
                             challenge |-> battleData.challenge,
                             splatfest |-> battleData.splatfest,
                             salmon |-> sd],
                 ![c].stamp = clock]
  /\ UNCHANGED <<clock, local, prefs, alarms, notes, last, writeSeq, pin, pout, popup>>

\* transport error or non-2xx status (line 310): the catch block starts
FetchFails(c) ==
  /\ cyc[c].pc = "fetching"
  /\ cyc' = [cyc EXCEPT ![c].pc = "failed"]
  /\ UNCHANGED <<clock, local, prefs, alarms, notes, last, writeSeq, pin, pout, popup>>

\* mutant: the snapshot is written without its timestamp
PersistWriteTorn(st, newRotationData, stamp, w) ==
  [rotationData |-> newRotationData, lastUpdated |-> st.lastUpdated,
   isOffline |-> "false", rdWrite |-> w, luWrite |-> st.luWrite, ioWrite |-> w,
   ioBegan |-> w, lastTab |-> st.lastTab]

\* mutant: the new object is spread over the stored one, so that a key the
\* new object lacks keeps its stored value
PersistWriteMerged(st, newRotationData, stamp, w) ==
  [rotationData |->
     IF st.rotationData = Null THEN newRotationData
     ELSE [k \in DOMAIN newRotationData |->
             IF newRotationData[k] = Absent THEN st.rotationData[k]
             ELSE newRotationData[k]],
   lastUpdated |-> stamp,
   isOffline |-> "false", rdWrite |-> w, luWrite |-> w, ioWrite |-> w,
   ioBegan |-> w, lastTab |-> st.lastTab]

\* the value of local after storage.local.set({rotationData, lastUpdated,
\* isOffline: false}) as write number w (lines 324-328)
PersistWrite(st, newRotationData, stamp, w) ==
  [rotationData |-> newRotationData, lastUpdated |-> stamp,
   isOffline |-> "false", rdWrite |-> w, luWrite |-> w, ioWrite |-> w,
   ioBegan |-> w, lastTab |-> st.lastTab]

\* ghost: the modes whose current in the snapshot this write replaces has
\* the startTime of the new current
SameStart(stored, new) ==
  {m \in {"regular", "anarchy", "xbattle", "salmon"} :
     /\ CurrentOf(new, m) # Null
     /\ CurrentOf(stored, m) # Null
     /\ CurrentOf(stored, m).startTime = CurrentOf(new, m).startTime}

Persist(c) ==
  /\ cyc[c].pc = "persisting"
  /\ writeSeq' = writeSeq + 1
  /\ local' = PersistWrite(local, cyc[c].new, cyc[c].stamp, writeSeq + 1)
  /\ cyc' = [cyc EXCEPT ![c].pc = "scheduling", ![c].persisted = TRUE,
                        ![c].same = SameStart(local.rotationData, cyc[c].new)]
  /\ UNCHANGED <<clock, prefs, alarms, notes, last, pin, pout, popup>>

\* line 332, then sendRotationNotifications issues its storage.sync.get
Schedule(c) ==
  /\ cyc[c].pc = "scheduling"
  /\ alarms' = scheduleNextRefresh(cyc[c].new, clock, alarms)
  /\ cyc' = [cyc EXCEPT ![c].pc = "notifying",
                        ![c].armed = "scheduled"]
  /\ UNCHANGED <<clock, local, prefs, notes, last, writeSeq, pin, pout, popup>>

\* the cycle returns result; the message listener answers a
\* 'fetchRotations' request with it (lines 290-292)
Return(cy, notified, result) ==
  [trigger |-> cy.trigger, fetchOk |-> cy.fetchOk, feedValid |-> cy.feedValid,
   persisted |-> cy.persisted, armed |-> cy.armed,
   wroteOffline |-> cy.wroteOffline,
   cachedValid |-> cy.cachedValid, notified |-> notified,
   result |-> result, replied |-> (cy.trigger = "message"), reply |-> result]

\* lines 754-798 and the return true of line 339
Notify(c) ==
  /\ cyc[c].pc = "notifying"
  /\ LET ids == sendRotationNotifications(cyc[c].new, cyc[c].old, prefs)
     IN /\ notes' = notes \cup ids
        /\ last' = Return(cyc[c], ids # {}, TRUE)
  /\ cyc' = [cyc EXCEPT ![c] = IdleCycle]
  /\ UNCHANGED <<clock, local, prefs, alarms, writeSeq, pin, pout, popup>>

\* mutant: the catch block reports success whatever the cache holds
CacheCheckOptimistic(c) ==
  /\ cyc[c].pc = "failed"
  /\ LET cached == local.rotationData
         valid == cached # Null /\ isDataStillValid(cached, clock)
     IN IF valid
          THEN /\ cyc' = [cyc EXCEPT ![c].pc = "staleWrite",
                                     ![c].cachedValid = TRUE]
               /\ last' = last
        ELSE /\ cyc' = [cyc EXCEPT ![c] = IdleCycle]
             /\ last' = Return(cyc[c], FALSE, TRUE)
  /\ UNCHANGED <<clock, local, prefs, alarms, notes, writeSeq, pin, pout, popup>>

\* the catch block's read resolves (lines 344-345): either the write of
\* the offline flag is issued or the cycle returns false (line 353)
CacheCheck(c) ==
  /\ cyc[c].pc = "failed"
  /\ LET cached == local.rotationData
         valid == cached # Null /\ isDataStillValid(cached, clock)
     IN IF valid
          THEN /\ cyc' = [cyc EXCEPT ![c].pc = "staleWrite",
                                     ![c].cachedValid = TRUE]
               /\ last' = last
        ELSE /\ cyc' = [cyc EXCEPT ![c] = IdleCycle]
             /\ last' = Return(cyc[c], FALSE, FALSE)
  /\ UNCHANGED <<clock, local, prefs, alarms, notes, writeSeq, pin, pout, popup>>

\* mutant: the catch block's write stamps lastUpdated as well
StaleWriteStamped(c) ==
  /\ cyc[c].pc = "staleWrite"
  /\ writeSeq' = writeSeq + 1
  /\ local' = [local EXCEPT !.isOffline = "true", !.ioWrite = writeSeq + 1,
                            !.ioBegan = cyc[c].began,
                            !.lastUpdated = clock + 1]
  /\ cyc' = [cyc EXCEPT ![c].pc = "staleArm",
                        ![c].wroteOffline = (local'.isOffline = "true")]
  /\ UNCHANGED <<clock, prefs, alarms, notes, last, pin, pout, popup>>

\* storage.local.set({ isOffline: true }) lands (line 347)
StaleWrite(c) ==
  /\ cyc[c].pc = "staleWrite"
  /\ writeSeq' = writeSeq + 1
  /\ local' = [local EXCEPT !.isOffline = "true", !.ioWrite = writeSeq + 1,
                            !.ioBegan = cyc[c].began]
  /\ cyc' = [cyc EXCEPT ![c].pc = "staleArm",
                        ![c].wroteOffline = (local'.isOffline = "true")]
  /\ UNCHANGED <<clock, prefs, alarms, notes, last, pin, pout, popup>>

\* mutant: the retry is armed with the 30-minute interval
StaleArmSlow(c) ==
  /\ cyc[c].pc = "staleArm"
  /\ alarms' = [alarms EXCEPT !.refreshRotations = clock + REFRESH_INTERVAL]
  /\ last' = Return([cyc[c] EXCEPT !.armed =
                       IF alarms'.refreshRotations = clock + RetryDelay
                         THEN "retry" ELSE "other"], FALSE, TRUE)
  /\ cyc' = [cyc EXCEPT ![c] = IdleCycle]
  /\ UNCHANGED <<clock, local, prefs, notes, writeSeq, pin, pout, popup>>

\* mutant: the stale-serve returns without arming the retry
StaleArmNone(c) ==
  /\ cyc[c].pc = "staleArm"
  /\ alarms' = alarms
  /\ last' = Return([cyc[c] EXCEPT !.armed = "other"], FALSE, TRUE)
  /\ cyc' = [cyc EXCEPT ![c] = IdleCycle]
  /\ UNCHANGED <<clock, local, prefs, notes, writeSeq, pin, pout, popup>>

\* the retry alarm and return true (lines 349-350)
StaleArm(c) ==
  /\ cyc[c].pc = "staleArm"
  /\ alarms' = [alarms EXCEPT !.refreshRotations = clock + RetryDelay]
  /\ last' = Return([cyc[c] EXCEPT !.armed =
                       IF alarms'.refreshRotations = clock + RetryDelay
                         THEN "retry" ELSE "other"], FALSE, TRUE)
  /\ cyc' = [cyc EXCEPT ![c] = IdleCycle]
  /\ UNCHANGED <<clock, local, prefs, notes, writeSeq, pin, pout, popup>>

Next ==
  \/ Tick
  \/ \E c \in Cycles : Message(c)
  \/ \E c \in Cycles, name \in {"smartRefresh", "refreshRotations"} :
       AlarmFires(c, name)
  \/ \E c \in Cycles, feed \in Feeds : FetchOk(c, feed)
  \/ \E c \in Cycles : FetchFails(c)
  \/ \E c \in Cycles : Persist(c)
  \/ \E c \in Cycles : Schedule(c)
  \/ \E c \in Cycles : Notify(c)
  \/ \E c \in Cycles : CacheCheck(c)
  \/ \E c \in Cycles : StaleWrite(c)
  \/ \E c \in Cycles : StaleArm(c)

Spec == Init /\ [][Next]_vars

(***************************************************************************)
(* Properties of the fetch cycle                                           *)
(***************************************************************************)
Returned == last.trigger # "none"

FailedPcs == {"failed", "staleWrite", "staleArm"}

\* C1: a cycle whose fetch succeeded goes read, fetch, process, persist,
\* arm, notify and returns true: it never enters the catch block, it arms
\* no timer before its snapshot is persisted and notifies only after arming.
C1_FixedOrder ==
  /\ \A c \in Cycles : cyc[c].fetchOk =>
       /\ cyc[c].pc \in {"persisting", "scheduling", "notifying"}
       /\ cyc[c].armed # "none" => cyc[c].persisted
  /\ (Returned /\ last.fetchOk) =>
       /\ last.result
       /\ last.persisted
       /\ last.armed = "scheduled"

\* C2: at most one invocation of fetchAllData is in flight at any moment.
C2_SingleFlight == Cardinality({c \in Cycles : InFlight(c)}) <= 1

\* only salmon.next looks forward: no mode has a current, no other a next
SalmonNextOnly(rd) ==
  /\ rd # Null
  /\ NextOf(rd, "salmon") # Null
  /\ \A m \in {"regular", "anarchy", "xbattle", "challenge", "salmon"} :
       CurrentOf(rd, m) = Null
  /\ \A m \in {"regular", "anarchy", "xbattle", "challenge"} :
       NextOf(rd, m) = Null

\* C3: a cycle whose fetch failed and whose cached snapshot passed the
\* validity check has set isOffline to true, armed refreshRotations five
\* minutes ahead and returned true; a stored snapshot whose only
\* forward-looking entry is salmon.next passes the check.
C3_StaleServe ==
  /\ (Returned /\ ~last.fetchOk /\ last.cachedValid) =>
       /\ last.wroteOffline
       /\ last.armed = "retry"
       /\ last.result
  /\ \A c \in Cycles : (cyc[c].pc = "staleArm") => cyc[c].wroteOffline
  /\ SalmonNextOnly(local.rotationData) =>
       isDataStillValid(local.rotationData, clock)

C3_Witness ==
  /\ Returned /\ ~last.fetchOk /\ last.cachedValid /\ last.result
  /\ SalmonNextOnly(local.rotationData)
  /\ local.isOffline = "true"
  /\ alarms.refreshRotations = clock + RetryDelay

\* C4: a cycle whose fetch failed and whose cached snapshot is absent or
\* fails the validity check returns false, and a 'fetchRotations' request
\* is answered with success = false.
C4_HardFail ==
  (Returned /\ ~last.fetchOk /\ ~last.cachedValid) =>
     /\ ~last.result
     /\ last.armed = "none" /\ ~last.wroteOffline
     /\ last.trigger = "message" => last.replied /\ ~last.reply

\* a message-triggered cycle failed over a stored, expired snapshot
C4_Witness ==
  /\ Returned /\ ~last.fetchOk /\ ~last.cachedValid
  /\ last.trigger = "message" /\ last.replied /\ ~last.reply
  /\ local.rotationData # Null
  /\ \A c \in Cycles : ~InFlight(c)

\* C5: a cycle whose fetch succeeded with a structurally invalid feed never
\* enters the catch block: it persists, arms a timer and returns true.
C5_ValidationFallback ==
  /\ \A c \in Cycles : (cyc[c].fetchOk /\ ~cyc[c].feedValid) =>
       cyc[c].pc \notin FailedPcs
  /\ (Returned /\ last.fetchOk /\ ~last.feedValid) =>
       /\ last.persisted
       /\ last.armed = "scheduled"
       /\ last.result

\* C6: rotationData and lastUpdated are both absent or come from the same
\* write, and the write that stored rotationData stored isOffline = false:
\* isOffline is never older than rotationData and, when of the same write,
\* is false.
C6_NoTornUpdate ==
  /\ local.rdWrite = local.luWrite
  /\ (local.rotationData = Null) <=> (local.lastUpdated = Missing)
  /\ (local.rotationData = Null) <=> (local.rdWrite = 0)
  /\ local.ioWrite >= local.rdWrite
  /\ (local.rdWrite > 0 /\ local.ioWrite = local.rdWrite) =>
       local.isOffline = "false"

\* a snapshot was persisted and a later write set the offline flag
C6_Witness ==
  /\ local.rdWrite > 0
  /\ local.ioWrite > local.rdWrite
  /\ local.isOffline = "true"

\* C12: a cycle whose new current.startTime for a mode equals the one of the
\* snapshot it replaced creates no notification for that mode, and the id
\* of a notification is made of the mode and the new current.startTime.
C12_NoRepeat ==
  \A c \in Cycles : cyc[c].pc = "notifying" =>
    \A id \in sendRotationNotifications(cyc[c].new, cyc[c].old, prefs) :
      /\ id[1] \notin cyc[c].same
      /\ id[2] = CurrentOf(cyc[c].new, id[1]).startTime

\* C16: whenever a cycle has returned and none is running, smartRefresh or
\* refreshRotations is armed, so that the alarm listener starts the next
\* cycle.
C16_LoopKeepsGoing ==
  (Returned /\ \A c \in Cycles : ~InFlight(c)) =>
    (alarms.smartRefresh # NotArmed \/ alarms.refreshRotations # NotArmed)

\* lines 314-321 for a feed at an instant: the objects newRotationData can
\* be (none when processSalmonRunData throws)
SnapshotsOf(feed, now) ==
  {LET battleData == IF b = Null THEN createTestData(now) ELSE b
   IN [regular |-> battleData.regular, anarchy |-> battleData.anarchy,
       xbattle |-> battleData.xbattle, challenge |-> battleData.challenge,
       splatfest |-> battleData.splatfest, salmon |-> sd] :
     b \in processRotationData(feed, now),
     sd \in processSalmonRunData(feed, now) \ {Throw}}

\* C29: the write of a successful cycle replaces the stored snapshot as a
\* whole.  What is stored after the write is the cycle's new snapshot,
\* and that is the one snapshot the cycle's feed and the instant of its
\* fetch determine, whatever was stored before: no key of the previous
\* snapshot is kept.
C29_FullyReplaced ==
  [][\A c \in Cycles :
       (cyc[c].pc = "persisting" /\ cyc'[c].pc = "scheduling") =>
         /\ local'.rotationData = cyc[c].new
         /\ \E feed \in Feeds :
              SnapshotsOf(feed, cyc[c].stamp) = {cyc[c].new}]_vars

\* a cycle has written the synthetic snapshot, which has no challenge key,
\* over a snapshot it read at its start that had one
C29_Witness ==
  \E c \in Cycles :
    /\ cyc[c].pc = "scheduling"
    /\ cyc[c].old # Null
    /\ cyc[c].old.challenge # Absent
    /\ local.rotationData = cyc[c].new
    /\ local.rotationData.challenge = Absent

\* C31: no step of a cycle in its catch block changes rotationData or
\* lastUpdated or touches smartRefresh.  The read of the cache writes
\* nothing, whether it finds the cache valid or the cycle returns false;
\* the stale write changes isOffline to true and nothing else; the stale
\* arm changes refreshRotations to five minutes ahead and nothing else.
C31_FailedPathFrame ==
  [][\A c \in Cycles :
       (cyc[c].pc \in FailedPcs /\ cyc'[c] # cyc[c]) =>
         /\ local'.rotationData = local.rotationData
         /\ local'.lastUpdated = local.lastUpdated
         /\ local'.rdWrite = local.rdWrite /\ local'.luWrite = local.luWrite
         /\ alarms'.smartRefresh = alarms.smartRefresh
         /\ cyc[c].pc = "failed" => (local' = local /\ alarms' = alarms)
         /\ cyc[c].pc = "staleWrite" =>
              /\ local'.isOffline = "true"
              /\ local' = [local EXCEPT !.isOffline = "true",
                                        !.ioWrite = local'.ioWrite,
                                        !.ioBegan = local'.ioBegan]
              /\ alarms' = alarms
         /\ cyc[c].pc = "staleArm" =>
              /\ local' = local
              /\ alarms' = [alarms EXCEPT
                              !.refreshRotations = clock + RetryDelay]]_vars

\* a stale-serve cycle has returned over a stored snapshot, with the
\* smartRefresh alarm of an earlier cycle still armed beside its retry
C31_Witness ==
  /\ Returned /\ ~last.fetchOk /\ last.cachedValid /\ last.wroteOffline
  /\ local.rotationData # Null /\ local.lastUpdated # Missing
  /\ local.isOffline = "true"
  /\ alarms.smartRefresh # NotArmed
  /\ alarms.refreshRotations = clock + RetryDelay

\* C32: a cycle about to notify creates no notification that exists
\* already: with two cycles overlapping, the one that notifies second has
\* not compared its snapshot with one read before the first one's write.
C32_NotifiedOnce ==
  \A c \in Cycles : cyc[c].pc = "notifying" =>
    sendRotationNotifications(cyc[c].new, cyc[c].old, prefs) \cap notes = {}

\* C33: when no cycle is running, storage does not hold a snapshot together
\* with the isOffline = true of a failed cycle that started before the
\* snapshot was written.
C33_NoStaleOfflineFlag ==
  (\A c \in Cycles : ~InFlight(c)) =>
    ~(/\ local.rdWrite > 0
      /\ local.isOffline = "true"
      /\ local.ioBegan < local.rdWrite)

\* the battle modes, or the salmon mode, of a snapshot are synthetic data
HasTestData(rd) ==
  /\ rd # Null
  /\ \E t \in 0..MaxTime :
       \A m \in {"regular", "anarchy", "xbattle"} :
         rd[m] = createTestData(t)[m]

HasSalmonTestData(rd) ==
  /\ rd # Null
  /\ \E t \in 0..MaxTime : rd.salmon = createSalmonRunTestData(t)

\* no rotation of the snapshot rd has ended or begun by the instant t
NoBoundaryBy(rd, t) ==
  \A m \in {"regular", "anarchy", "xbattle", "challenge", "salmon"} :
    /\ CurrentOf(rd, m) # Null => CurrentOf(rd, m).endTime > t
    /\ NextOf(rd, m) # Null => NextOf(rd, m).startTime > t

\* C34: a cycle that puts synthetic data over the synthetic data of the
\* cycle before it, with no rotation boundary of the earlier snapshot
\* passed in between, creates no notification for a mode the synthetic
\* data covers: regular, anarchy and xbattle for the battle fallback,
\* salmon for the Salmon Run fallback.
C34_SyntheticQuiet ==
  \A c \in Cycles :
    (cyc[c].pc = "notifying" /\ NoBoundaryBy(cyc[c].old, cyc[c].stamp)) =>
      \A id \in sendRotationNotifications(cyc[c].new, cyc[c].old, prefs) :
        /\ (HasTestData(cyc[c].old) /\ HasTestData(cyc[c].new)) =>
             id[1] \notin {"regular", "anarchy", "xbattle"}
        /\ (HasSalmonTestData(cyc[c].old)
              /\ HasSalmonTestData(cyc[c].new)) =>
             id[1] # "salmon"

\* regular, anarchy, xbattle or salmon has a next with a startTime
HasNextStart(rd) ==
  /\ rd # Null
  /\ \E m \in {"regular", "anarchy", "xbattle", "salmon"} :
       NextOf(rd, m) # Null /\ Truthy(NextOf(rd, m).startTime)

C8_ExclusiveTimers ==
  ~(alarms.smartRefresh # NotArmed /\ alarms.refreshRotations # NotArmed)

(***************************************************************************)
(* SpecSnap: scheduleNextRefresh and isDataStillValid applied to a stored  *)
(* snapshot at an instant, over all snapshots within the bounds.           *)
(***************************************************************************)
Rot(st, en, rule) == [startTime |-> st, endTime |-> en, rule |-> rule]

AllModes == {"regular", "anarchy", "xbattle", "challenge", "salmon"}

SnapModeStates ==
  [current : {Null} \cup {Rot(0, e, "current") : e \in 1..MaxEnd},
   next : {Null, Rot(MaxEnd, MaxEnd + 1, "next")}]

\* Regular current [10:00, 12:00), Anarchy current [10:00, 12:05)
ExampleSnapshot ==
  [regular |-> [current |-> Rot(10 * 60, 12 * 60, "current"),
                 next |-> Null],
   anarchy |-> [current |-> Rot(10 * 60, 12 * 60 + 5, "current"),
                 next |-> Null],
   xbattle |-> EmptyState, challenge |-> EmptyState, salmon |-> EmptyState,
   splatfest |-> Null]

ExampleNow == 11 * 60

Stored(rd) ==
  [rotationData |-> rd, lastUpdated |-> 0, isOffline |-> "false",
   rdWrite |-> 1, luWrite |-> 1, ioWrite |-> 1, ioBegan |-> 1,
   lastTab |-> "unset"]

SnapInit ==
  /\ \/ /\ clock \in 0..(MaxEnd + 1)
        /\ \E r, a, x, s \in SnapModeStates :
             \E c \in SnapModeStates \cup {Absent} :
               local = Stored([regular |-> r, anarchy |-> a, xbattle |-> x,
                               challenge |-> c, salmon |-> s,
                               splatfest |-> Null])
     \/ clock = ExampleNow /\ local = Stored(ExampleSnapshot)
  /\ alarms \in {[smartRefresh |-> NotArmed, refreshRotations |-> NotArmed],
                 [smartRefresh |-> 0, refreshRotations |-> 0]}
  /\ prefs = PrefsUnset
  /\ notes = {}
  /\ cyc = [c \in Cycles |-> IdleCycle]
  /\ last = NoneYet
  /\ writeSeq = 1
  /\ pin = [fn |-> "snapshot"]
  /\ pout = NoPure
  /\ popup = NoPopup

SnapApply ==
  /\ pout = NoPure
  /\ alarms' = scheduleNextRefresh(local.rotationData, clock, alarms)
  /\ pout' = [fn |-> "snapshot", prior |-> alarms,
              valid |-> isDataStillValid(local.rotationData, clock)]
  /\ UNCHANGED <<clock, local, prefs, notes, cyc, last, writeSeq, pin,
               popup>>

SpecSnap == SnapInit /\ [][SnapApply]_vars

SnapApplied == pin.fn = "snapshot" /\ pout # NoPure

\* current.endTime + 1 minute of the modes that have a current, if later
\* than now
FutureBoundaries(rd, now) ==
  {t \in {DateMs(CurrentOf(rd, m).endTime) + RefreshBuffer :
            m \in {k \in AllModes : CurrentOf(rd, k) # Null}} : t > now}

\* C7: smartRefresh is armed at the minimum over the five modes of
\* current.endTime + 1 minute among the values later than now; when there
\* is none, smartRefresh is not armed and refreshRotations is armed 30
\* minutes ahead.  Regular [10:00,12:00), Anarchy [10:00,12:05), now 11:00
\* gives 12:01.
C7_EarliestBoundary ==
  SnapApplied =>
    LET future == FutureBoundaries(local.rotationData, clock)
    IN /\ future # {} =>
            /\ alarms.smartRefresh \in future
            /\ \A t \in future : alarms.smartRefresh <= t
            /\ alarms.refreshRotations = pout.prior.refreshRotations
       /\ future = {} =>
            /\ alarms.smartRefresh = NotArmed
            /\ alarms.refreshRotations = clock + REFRESH_INTERVAL
       /\ (local.rotationData = ExampleSnapshot /\ clock = ExampleNow) =>
            alarms.smartRefresh = 12 * 60 + 1

C7_Witness ==
  /\ SnapApplied
  /\ local.rotationData = ExampleSnapshot /\ clock = ExampleNow
  /\ alarms.smartRefresh = 12 * 60 + 1

\* C10: the validity check is true exactly when some mode among regular,
\* anarchy, xbattle, challenge and salmon has current.endTime > now or has
\* a next.startTime.
C10_ValidityAllModes ==
  SnapApplied =>
    (pout.valid <=>
       \E m \in AllModes :
         \/ /\ CurrentOf(local.rotationData, m) # Null
            /\ DateMs(CurrentOf(local.rotationData, m).endTime) > clock
         \/ NextOf(local.rotationData, m) # Null)

(***************************************************************************)
(* SpecRecover: an outage.  A snapshot is stored and the alarm that the    *)
(* cycle which stored it has armed is pending.  The endpoint is            *)
(* unreachable until the minute pin.back and answers from then on.  The    *)
(* cycles are started by the alarms alone.  chrome.alarms delivers a due   *)
(* alarm and every pending promise of a cycle settles: weak fairness on    *)
(* the delivery and on the steps of each cycle.  Writes are counted from   *)
(* the start of the outage, the stored snapshot being write 0; the outage  *)
(* is as long as MaxWrites - 1 retries.                                    *)
(***************************************************************************)
\* the feeds on which both processors return
RecoverFeeds == {f \in Feeds : Throw \notin processSalmonRunData(f, 0)}

RecoverInit ==
  /\ clock = 0
  /\ \E r, s \in SnapModeStates :
       LET rd == [regular |-> r, anarchy |-> EmptyState,
                  xbattle |-> EmptyState, challenge |-> EmptyState,
                  salmon |-> s, splatfest |-> Null]
       IN /\ local = [Stored(rd) EXCEPT !.rdWrite = 0, !.luWrite = 0,
                                       !.ioWrite = 0, !.ioBegan = 0]
          /\ alarms = scheduleNextRefresh(
                        rd, 0, [smartRefresh |-> NotArmed,
                                refreshRotations |-> NotArmed])
  /\ pin \in [fn : {"outage"}, back : 1..(RetryDelay * (MaxWrites - 1))]
  /\ prefs = PrefsAllOn
  /\ notes = {}
  /\ cyc = [c \in Cycles |-> IdleCycle]
  /\ last = NoneYet
  /\ writeSeq = 0
  /\ pout = NoPure
  /\ popup = NoPopup

\* the fetch of line 309 settles: it rejects while the endpoint is
\* unreachable and resolves with a feed afterwards
FetchSettles(c) ==
  \/ clock < pin.back /\ FetchFails(c)
  \/ clock >= pin.back /\ \E feed \in RecoverFeeds : FetchOk(c, feed)

\* the continuations of one invocation of fetchAllData
CycleStep(c) ==
  \/ FetchSettles(c)
  \/ Persist(c)
  \/ Schedule(c)
  \/ Notify(c)
  \/ CacheCheck(c)
  \/ StaleWrite(c)
  \/ StaleArm(c)

AlarmDelivery ==
  \E c \in Cycles, name \in {"smartRefresh", "refreshRotations"} :
    AlarmFires(c, name)

RecoverNext ==
  \/ Tick
  \/ AlarmDelivery
  \/ \E c \in Cycles : CycleStep(c)

SpecRecover ==
  /\ RecoverInit
  /\ [][RecoverNext]_vars
  /\ WF_vars(AlarmDelivery)
  /\ \A c \in Cycles : WF_vars(CycleStep(c))

\* the stored snapshot passes the validity check at every instant an alarm
\* can be delivered at
StaysValid(rd) == rd # Null /\ isDataStillValid(rd, MaxAlarmTime)

\* a snapshot fetched after the outage is stored with isOffline = false
Recovered ==
  /\ local.isOffline = "false"
  /\ local.rdWrite > 0
  /\ local.lastUpdated >= pin.back

\* C35: once a failed fetch has set isOffline over a cache that stays
\* valid, a later cycle persists a snapshot fetched after the outage with
\* isOffline = false; and every stale-serve that has returned has armed
\* refreshRotations five minutes ahead.
C35_Recovery ==
  /\ (local.isOffline = "true" /\ StaysValid(local.rotationData))
       ~> Recovered
  /\ []((Returned /\ ~last.fetchOk /\ last.cachedValid) =>
          last.armed = "retry")

\* a stale write during the outage was followed by the write of a fresh
\* snapshot
C35_Witness ==
  /\ pin.fn = "outage"
  /\ Recovered
  /\ local.rdWrite > 1

(***************************************************************************)
(* SpecSel: the current/next selectors applied to a node list at an        *)
(* instant, over all lists within the bounds.  A node's rule is its        *)
(* position in the list, which tells the nodes of one list apart.          *)
(***************************************************************************)
SelWindows ==
  {<<st, en>> : st \in 0..MaxT, en \in 1..(MaxT + 1)}
    \cup {<<0, Missing>>}

\* the list of the nodes with the windows w[1], ..., w[n]
NodeList(w, n) == [i \in 1..n |-> Node(w[i][1], w[i][2], i)]

\* every node a record of its own with a single time period
EventsEach(nodes) ==
  [i \in 1..Len(nodes) |->
     [shape |-> nodes[i].shape, hasEvent |-> TRUE, name |-> nodes[i].rule,
      timePeriods |-> <<[startTime |-> nodes[i].startTime,
                         endTime |-> nodes[i].endTime]>>]]

\* one record whose time periods are the nodes
EventsOne(nodes) ==
  <<[shape |-> "ok", hasEvent |-> TRUE, name |-> 0,
     timePeriods |-> [i \in 1..Len(nodes) |->
                        [startTime |-> nodes[i].startTime,
                         endTime |-> nodes[i].endTime]]]>>

\* the feed whose coop regularSchedules.nodes is the list
CoopFeed(nodes) == [EmptyFeed EXCEPT !.coop = Coop(ListOf(nodes), AbsentKey)]

SelInit ==
  /\ clock \in 0..(MaxT + 1)
  /\ \E n \in 0..MaxLen : \E w \in [1..n -> SelWindows] :
       pin = [fn |-> "select", nodes |-> NodeList(w, n)]
  /\ pout = NoPure
  /\ local = [rotationData |-> Null, lastUpdated |-> Missing,
              isOffline |-> "undefined",
              rdWrite |-> 0, luWrite |-> 0, ioWrite |-> 0, ioBegan |-> 0,
              lastTab |-> "unset"]
  /\ alarms = [smartRefresh |-> NotArmed, refreshRotations |-> NotArmed]
  /\ prefs = PrefsUnset
  /\ notes = {}
  /\ cyc = [c \in Cycles |-> IdleCycle]
  /\ last = NoneYet
  /\ writeSeq = 0
  /\ popup = NoPopup

\* the selectors of processRotationData (lines 439-454) and
\* processSalmonRunData run on the list
SelApply ==
  /\ pin.fn = "select"
  /\ pout = NoPure
  /\ pout' = [fn |-> "select",
              regular |-> findCurrentAndNext(pin.nodes, clock),
              anarchy |-> findCurrentAndNextAnarchy(pin.nodes, clock),
              events |-> {processEventSchedules(EventsEach(pin.nodes), clock),
                          processEventSchedules(EventsOne(pin.nodes), clock)},
              salmon |-> processSalmonRunData(CoopFeed(pin.nodes), clock)]
  /\ UNCHANGED <<clock, local, prefs, alarms, notes, cyc, last, writeSeq, pin,
               popup>>

SpecSel == SelInit /\ [][SelApply]_vars

SelApplied == pin.fn = "select" /\ pout # NoPure

\* every node has both times, start < end, and each window ends no later
\* than the following one starts
SortedNonOverlapping(nodes) ==
  /\ \A i \in 1..Len(nodes) :
       /\ nodes[i].startTime >= 0
       /\ nodes[i].startTime < nodes[i].endTime
  /\ \A i \in 1..(Len(nodes) - 1) : nodes[i].endTime <= nodes[i + 1].startTime

Window(r) ==
  IF r = Null THEN Null
  ELSE [startTime |-> r.startTime, endTime |-> r.endTime]

\* the windows of the results a selector can return
Windows(results) ==
  {[current |-> Window(r.current), next |-> Window(r.next)] : r \in results}

Containing(nodes, now) ==
  {i \in 1..Len(nodes) :
     nodes[i].startTime <= now /\ now < nodes[i].endTime}

Upcoming(nodes, now) == {i \in 1..Len(nodes) : nodes[i].startTime > now}

\* C9: on a sorted, non-overlapping list the selectors of the regular, X,
\* anarchy and event modes return as current the one window containing now
\* (null if none) and as next the window with the earliest start after now
\* (null if none).
C9_SelectorsOnSortedWindows ==
  (SelApplied /\ SortedNonOverlapping(pin.nodes)) =>
    LET nodes == pin.nodes
        cont == Containing(nodes, clock)
        upc == Upcoming(nodes, clock)
        expected ==
          [current |-> IF cont = {} THEN Null
                       ELSE Window(nodes[CHOOSE i \in cont : TRUE]),
           next |-> IF upc = {} THEN Null
                    ELSE Window(nodes[CHOOSE i \in upc : \A j \in upc :
                                  nodes[i].startTime <= nodes[j].startTime])]
    IN /\ Cardinality(cont) <= 1
       /\ Windows(pout.regular) = {expected}
       /\ Windows(pout.anarchy) = {expected}
       /\ Windows(pout.events) = {expected}

\* three windows, now in the second: the second is current, the third next
C9_Witness ==
  /\ SelApplied /\ SortedNonOverlapping(pin.nodes)
  /\ Len(pin.nodes) = 3
  /\ Containing(pin.nodes, clock) = {2}
  /\ \A r \in pout.regular \cup pout.anarchy \cup pout.events :
       /\ r.current # Null /\ r.current.startTime = pin.nodes[2].startTime
       /\ r.next # Null /\ r.next.startTime = pin.nodes[3].startTime

\* the windows of the nodes that contain now
ContainingWindows(nodes, now) ==
  {Window(nodes[i]) : i \in Containing(nodes, now)}

\* C19: containment is half-open.  Every selector returns a current
\* exactly when some window has start <= now < end, and the current it
\* returns is such a window: a window is current at its start, is not at
\* its end, and of two adjacent windows the following one is current at
\* the instant they meet.  (Without any current or upcoming window the
\* salmon selector returns its synthetic data.)
C19_HalfOpen ==
  SelApplied =>
    LET cont == ContainingWindows(pin.nodes, clock)
        upc == Upcoming(pin.nodes, clock)
    IN /\ \A r \in pout.regular \cup pout.anarchy \cup pout.events :
            IF cont # {} THEN Window(r.current) \in cont
            ELSE r.current = Null
       /\ \A r \in pout.salmon :
            IF cont # {} THEN Window(r.current) \in cont
            ELSE IF upc # {} THEN r.current = Null
            ELSE r = createSalmonRunTestData(clock)

\* [0,1) and [1,2) at now = 1: the second window is current everywhere
C19_Witness ==
  /\ SelApplied
  /\ pin.nodes = NodeList(<<(<<0, 1>>), (<<1, 2>>)>>, 2)
  /\ clock = 1
  /\ \A r \in pout.regular \cup pout.anarchy \cup pout.events
                \cup pout.salmon :
       r.current # Null /\ r.current.startTime = 1 /\ r.current.endTime = 2

\* the first of the nodes with the smallest start after now
FirstUpcoming(nodes, now) ==
  CHOOSE i \in Upcoming(nodes, now) :
    \A j \in Upcoming(nodes, now) :
      \/ nodes[i].startTime < nodes[j].startTime
      \/ nodes[i].startTime = nodes[j].startTime /\ i <= j

\* C20: whatever the order of the nodes, next is the node with the
\* smallest start among those with start > now, and among the nodes with
\* that start the first of the input; so for the regular / X, anarchy,
\* event and salmon selectors.  (The event record made of all periods
\* carries one name, 0, for every period.)
C20_NextEarliestFirst ==
  (SelApplied /\ Upcoming(pin.nodes, clock) # {}) =>
    LET i == FirstUpcoming(pin.nodes, clock)
    IN /\ \A r \in pout.regular \cup pout.anarchy \cup pout.salmon :
            /\ r.next # Null
            /\ Window(r.next) = Window(pin.nodes[i])
            /\ r.next.rule = i
       /\ \A r \in pout.events :
            /\ r.next # Null
            /\ Window(r.next) = Window(pin.nodes[i])
            /\ r.next.rule \in {i, 0}

\* [2,3), [1,2), [1,3) at now = 0: the second node is next
C20_Witness ==
  /\ SelApplied
  /\ pin.nodes = NodeList(<<(<<2, 3>>), (<<1, 2>>), (<<1, 3>>)>>, 3)
  /\ clock = 0
  /\ \A r \in pout.regular \cup pout.anarchy \cup pout.salmon :
       r.next # Null /\ r.next.rule = 2
  /\ \A r \in pout.events : r.next # Null /\ r.next.endTime = 2

\* the node containing now that the ascending stable sort puts last
LastContaining(nodes, now) ==
  CHOOSE i \in Containing(nodes, now) :
    \A j \in Containing(nodes, now) :
      \/ nodes[j].startTime < nodes[i].startTime
      \/ nodes[j].startTime = nodes[i].startTime /\ j <= i

\* the first node of the list that contains now
FirstContaining(nodes, now) ==
  CHOOSE i \in Containing(nodes, now) : \A j \in Containing(nodes, now) : i <= j

ProperWindow(r) == r = Null \/ r.startTime < r.endTime

\* C22: every rotation selected as current or as next has
\* startTime < endTime; a node with endTime <= startTime is never selected.
C22_StartBeforeEnd ==
  SelApplied =>
    \A r \in pout.regular \cup pout.anarchy \cup pout.events \cup pout.salmon :
      ProperWindow(r.current) /\ ProperWindow(r.next)

\* C37: in every result of the regular / X, anarchy, event and salmon
\* selectors that has a current and a next, current.startTime <= now <
\* next.startTime, and current and next are different entries.
C37_CurrentBeforeNext ==
  SelApplied =>
    \A r \in pout.regular \cup pout.anarchy \cup pout.events
              \cup pout.salmon :
      (r.current # Null /\ r.next # Null) =>
        /\ r.current.startTime <= clock
        /\ clock < r.next.startTime
        /\ r.current # r.next

\* [0,2), [2,3) and the window [1,1) at now = 1: every selector returns
\* the first as current and the second as next
C37_Witness ==
  /\ SelApplied
  /\ pin.nodes = NodeList(<<(<<0, 2>>), (<<2, 3>>), (<<1, 1>>)>>, 3)
  /\ clock = 1
  /\ \A r \in pout.regular \cup pout.anarchy \cup pout.events
                \cup pout.salmon :
       /\ r.current # Null
       /\ r.current.startTime = 0 /\ r.current.endTime = 2
       /\ r.next # Null
       /\ r.next.startTime = 2 /\ r.next.endTime = 3

(***************************************************************************)
(* SpecSkip: the selectors applied to a list of five nodes, one of which   *)
(* lacks its endTime or its startTime, and to the list of the other four.  *)
(* The nodes are numbered (rule) before the malformed one is put in.       *)
(***************************************************************************)
\* the unit windows and one window over them all
SkipWindows ==
  {<<st, st + 1>> : st \in 0..SkipT} \cup {<<0, SkipT + 1>>}

Malformed ==
  {<<st, Missing>> : st \in 0..SkipT} \cup {<<Missing, SkipT + 1>>}

SkipInit ==
  /\ clock \in 0..(SkipT + 1)
  /\ \E w \in [1..4 -> SkipWindows], b \in Malformed, k \in 1..5 :
       pin = [fn |-> "skip",
              others |-> NodeList(w, 4),
              nodes |-> InsertAt(NodeList(w, 4), k, Node(b[1], b[2], 5))]
  /\ pout = NoPure
  /\ local = [rotationData |-> Null, lastUpdated |-> Missing,
              isOffline |-> "undefined",
              rdWrite |-> 0, luWrite |-> 0, ioWrite |-> 0, ioBegan |-> 0,
              lastTab |-> "unset"]
  /\ alarms = [smartRefresh |-> NotArmed, refreshRotations |-> NotArmed]
  /\ prefs = PrefsUnset
  /\ notes = {}
  /\ cyc = [c \in Cycles |-> IdleCycle]
  /\ last = NoneYet
  /\ writeSeq = 0
  /\ popup = NoPopup

\* what the four selectors return for a list
Selected(nodes, now) ==
  [regular |-> findCurrentAndNext(nodes, now),
   anarchy |-> findCurrentAndNextAnarchy(nodes, now),
   eventsEach |-> {processEventSchedules(EventsEach(nodes), now)},
   eventsOne |-> {processEventSchedules(EventsOne(nodes), now)},
   salmon |-> processSalmonRunData(CoopFeed(nodes), now)]

SkipApply ==
  /\ pin.fn = "skip"
  /\ pout = NoPure
  /\ pout' = [fn |-> "skip", all |-> Selected(pin.nodes, clock),
              rest |-> Selected(pin.others, clock)]
  /\ UNCHANGED <<clock, local, prefs, alarms, notes, cyc, last, writeSeq, pin,
                 popup>>

SpecSkip == SkipInit /\ [][SkipApply]_vars

SkipApplied == pin.fn = "skip" /\ pout # NoPure

SelectorNames == {"regular", "anarchy", "eventsEach", "eventsOne", "salmon"}

\* r is a current/next pair made of nodes that have both times
WellFormed(r) ==
  /\ r # Throw
  /\ r.current # Null =>
       r.current.startTime # Missing /\ r.current.endTime # Missing
  /\ r.next # Null => r.next.startTime # Missing /\ r.next.endTime # Missing

\* C15: a node without startTime or endTime is left out and nothing fails:
\* no selector throws or selects it, and when the node of a list of five
\* lacks its endTime every selector returns what it returns for the other
\* four nodes.
C15_MalformedSkipped ==
  SkipApplied =>
    /\ \A f \in SelectorNames : \A r \in pout.all[f] : WellFormed(r)
    /\ (\E i \in 1..5 : pin.nodes[i].endTime = Missing) =>
         \A f \in SelectorNames : pout.all[f] = pout.rest[f]

\* the node without endTime would be current and sits in the middle; the
\* selectors return a later-starting node of the other four as current
C15_Witness ==
  /\ SkipApplied
  /\ clock = 1
  /\ pin.nodes[3].endTime = Missing /\ pin.nodes[3].startTime = 0
  /\ \A f \in SelectorNames : \A r \in pout.all[f] :
       /\ r.current # Null /\ r.current.startTime = 1
       /\ r.next = Null
  /\ \A f \in SelectorNames : pout.all[f] = pout.rest[f]

(***************************************************************************)
(* SpecIdem: the processors run twice on one feed at one instant.  The     *)
(* feed carries one node list under every schedule key.                    *)
(***************************************************************************)
IdemWindows == SkipWindows \cup {<<0, Missing>>, <<Missing, 1>>}

FestNodes(nodes) ==
  [i \in 1..Len(nodes) |->
     [hasSettings |-> TRUE, startTime |-> nodes[i].startTime,
      endTime |-> nodes[i].endTime]]

FullFeed(nodes) ==
  [root |-> TRUE, regularSchedules |-> ListOf(nodes),
   bankaraSchedules |-> ListOf(nodes), xSchedules |-> ListOf(nodes),
   eventSchedules |-> ListOf(EventsEach(nodes)),
   coop |-> Coop(ListOf(nodes), ListOf(nodes)), currentFest |-> Null,
   festSchedules |-> ListOf(FestNodes(nodes))]

\* the keys processRotationData reads and the mode each one fills
KeyMode ==
  [regularSchedules |-> "regular", bankaraSchedules |-> "anarchy",
   xSchedules |-> "xbattle", eventSchedules |-> "challenge"]

\* the feed without the key k
Lacking(nodes, k) == [FullFeed(nodes) EXCEPT ![k] = AbsentKey]

\* the feed, and the feed without root, with a battle key or a coop key
\* whose nodes is no list, during a Splatfest, and without one of its keys
IdemFeeds(nodes) ==
  {Lacking(nodes, k) : k \in DOMAIN KeyMode} \cup
  {FullFeed(nodes),
   [FullFeed(nodes) EXCEPT !.root = FALSE],
   [FullFeed(nodes) EXCEPT
      !.xSchedules = [shape |-> "nodesObject", nodes |-> <<>>]],
   [FullFeed(nodes) EXCEPT
      !.coop = Coop([shape |-> "nodesObject", nodes |-> <<>>], AbsentKey)],
   [FullFeed(nodes) EXCEPT
      !.currentFest = [startTime |-> 0, endTime |-> 1, teams |-> 3]]}

IdemInit ==
  /\ clock \in 0..(SkipT + 1)
  /\ \E n \in 0..MaxLen : \E w \in [1..n -> IdemWindows] :
       \E feed \in IdemFeeds(NodeList(w, n)) :
         pin = [fn |-> "twice", nodes |-> NodeList(w, n), data |-> feed]
  /\ pout = [fn |-> "twice", runs |-> <<>>]
  /\ local = [rotationData |-> Null, lastUpdated |-> Missing,
              isOffline |-> "undefined",
              rdWrite |-> 0, luWrite |-> 0, ioWrite |-> 0, ioBegan |-> 0,
              lastTab |-> "unset"]
  /\ alarms = [smartRefresh |-> NotArmed, refreshRotations |-> NotArmed]
  /\ prefs = PrefsUnset
  /\ notes = {}
  /\ cyc = [c \in Cycles |-> IdleCycle]
  /\ last = NoneYet
  /\ writeSeq = 0
  /\ popup = NoPopup

\* lines 314-315 without the fallbacks: the snapshots the two processors
\* can return for the feed
IdemRun ==
  /\ pin.fn = "twice"
  /\ Len(pout.runs) < 2
  /\ pout' = [pout EXCEPT !.runs =
               Append(@, [battle |-> processRotationData(pin.data, clock),
                          salmon |-> processSalmonRunData(pin.data, clock)])]
  /\ UNCHANGED <<clock, local, prefs, alarms, notes, cyc, last, writeSeq, pin,
                 popup>>

SpecIdem == IdemInit /\ [][IdemRun]_vars

RanTwice == pin.fn = "twice" /\ Len(pout.runs) = 2

\* every startTime of the list is there, so that the sort has one result
StartsParse(nodes) == \A i \in 1..Len(nodes) : nodes[i].startTime # Missing

AllExcluded(nodes) ==
  \A i \in 1..Len(nodes) :
    nodes[i].startTime = Missing \/ nodes[i].endTime = Missing

\* no node that has both times contains now or starts after it
NoneLive(nodes, now) ==
  \A i \in 1..Len(nodes) :
    \/ nodes[i].startTime = Missing \/ nodes[i].endTime = Missing
    \/ nodes[i].endTime <= now /\ nodes[i].startTime <= now

\* a run on a feed that passes validation and whose lists are lists
RanOnValid ==
  /\ pin.fn = "twice" /\ Len(pout.runs) >= 1
  /\ pin.data.root /\ validateApiResponse(pin.data)
  /\ pin.data.coop.regularSchedules.shape = "list"

BattleModes == {"regular", "anarchy", "xbattle", "challenge"}

\* C23 as stated: on an empty or all-excluded list every mode is
\* {current: null, next: null}, and so is the salmon mode when its lists
\* are empty or hold no current or upcoming window.
C23_EmptyState ==
  RanOnValid =>
    /\ AllExcluded(pin.nodes) =>
         \A b \in pout.runs[1].battle : \A m \in BattleModes : b[m] = EmptyState
    /\ NoneLive(pin.nodes, clock) => pout.runs[1].salmon = {EmptyState}

\* C23 amended: on an empty or all-excluded list the regular, anarchy, X
\* and challenge modes are {current: null, next: null}; the salmon mode,
\* when its lists are empty or hold no current or upcoming window, is the
\* synthetic pair of createSalmonRunTestData.
C23_EmptyStateButSalmon ==
  RanOnValid =>
    /\ AllExcluded(pin.nodes) =>
         \A b \in pout.runs[1].battle : \A m \in BattleModes : b[m] = EmptyState
    /\ NoneLive(pin.nodes, clock) =>
         pout.runs[1].salmon = {createSalmonRunTestData(clock)}

\* two nodes, one without startTime and one without endTime
C23_Witness ==
  /\ RanOnValid
  /\ Len(pin.nodes) = 2
  /\ pin.nodes[1].startTime = Missing /\ pin.nodes[2].endTime = Missing
  /\ \A b \in pout.runs[1].battle : \A m \in BattleModes : b[m] = EmptyState
  /\ pout.runs[1].salmon = {createSalmonRunTestData(clock)}

\* C24: a feed with a root that lacks one of the keys regularSchedules,
\* bankaraSchedules, xSchedules, eventSchedules passes validation; the
\* mode of that key is {current: null, next: null} and every other mode
\* and the festival are what they are for the feed that has the key; the
\* snapshot is not the synthetic one.
C24_MissingKey ==
  \A k \in DOMAIN KeyMode :
    (pin.fn = "twice" /\ Len(pout.runs) >= 1
       /\ pin.data = Lacking(pin.nodes, k)) =>
      /\ validateApiResponse(pin.data)
      /\ Null \notin pout.runs[1].battle
      /\ createTestData(clock) \notin pout.runs[1].battle
      /\ pout.runs[1].battle =
           {[b EXCEPT ![KeyMode[k]] = EmptyState] :
              b \in processRotationData(FullFeed(pin.nodes), clock)}

\* no xSchedules; of the two nodes the first is current and the second next
C24_Witness ==
  /\ pin.fn = "twice" /\ Len(pout.runs) >= 1
  /\ pin.data = Lacking(pin.nodes, "xSchedules")
  /\ Len(pin.nodes) = 2
  /\ \A b \in pout.runs[1].battle :
       /\ b.xbattle = EmptyState
       /\ \A m \in {"regular", "anarchy", "challenge"} :
            /\ b[m].current # Null /\ b[m].current.rule = 1
            /\ b[m].next # Null /\ b[m].next.rule = 2

(***************************************************************************)
(* SpecFest: processSplatfestData on a festival schedule of up to MaxLen   *)
(* nodes, each with or without festMatchSettings, with and without a       *)
(* currentFest.                                                            *)
(***************************************************************************)
\* the festival feed: the nodes, those of mask with festMatchSettings, and
\* the currentFest given
FestFeed(nodes, mask, currentFest) ==
  [EmptyFeed EXCEPT
     !.currentFest = currentFest,
     !.festSchedules =
        ListOf([i \in 1..Len(nodes) |->
                  [hasSettings |-> i \in mask,
                   startTime |-> nodes[i].startTime,
                   endTime |-> nodes[i].endTime]])]

\* an active festival with three teams
ActiveFest == [startTime |-> 0, endTime |-> MaxT + 1, teams |-> 3]

FestInit ==
  /\ clock \in 0..(MaxT + 1)
  /\ \E n \in 0..MaxLen : \E st \in [1..n -> 0..(MaxT + 1)] :
       \E mask \in SUBSET (1..n) : \E currentFest \in {Null, ActiveFest} :
         pin = [fn |-> "fest",
                feed |-> FestFeed(NodeList([i \in 1..n |->
                                              <<st[i], st[i] + 1>>], n),
                                  mask, currentFest)]
  /\ pout = NoPure
  /\ local = [rotationData |-> Null, lastUpdated |-> Missing,
              isOffline |-> "undefined",
              rdWrite |-> 0, luWrite |-> 0, ioWrite |-> 0, ioBegan |-> 0,
              lastTab |-> "unset"]
  /\ alarms = [smartRefresh |-> NotArmed, refreshRotations |-> NotArmed]
  /\ prefs = PrefsUnset
  /\ notes = {}
  /\ cyc = [c \in Cycles |-> IdleCycle]
  /\ last = NoneYet
  /\ writeSeq = 0
  /\ popup = NoPopup

\* processRotationData's call of processSplatfestData (line 457)
FestApply ==
  /\ pin.fn = "fest"
  /\ pout = NoPure
  /\ pout' = [fn |-> "fest", fest |-> processSplatfestData(pin.feed, clock)]
  /\ UNCHANGED <<clock, local, prefs, alarms, notes, cyc, last, writeSeq, pin,
               popup>>

SpecFest == FestInit /\ [][FestApply]_vars

FestApplied == pin.fn = "fest" /\ pout # NoPure

\* C26: with a currentFest the festival is built from it whatever the
\* festival schedule holds; without one it is the node with the earliest
\* start among the festSchedules nodes that have festMatchSettings and
\* start after now, as SCHEDULED with no teams, and null when there is no
\* such node.
C26_Festival ==
  FestApplied =>
    LET nodes == pin.feed.festSchedules.nodes
        cand == {i \in 1..Len(nodes) :
                   nodes[i].hasSettings /\ nodes[i].startTime > clock}
        f == pout.fest
    IN IF pin.feed.currentFest # Null
         THEN f = [title |-> "Splatfest", state |-> "ACTIVE",
                   startTime |-> pin.feed.currentFest.startTime,
                   endTime |-> pin.feed.currentFest.endTime,
                   teams |-> pin.feed.currentFest.teams]
       ELSE IF cand = {} THEN f = Null
       ELSE /\ f # Null
            /\ f.state = "SCHEDULED" /\ f.teams = 0
            /\ \E i \in cand :
                 /\ f.startTime = nodes[i].startTime
                 /\ f.endTime = nodes[i].endTime
            /\ \A j \in cand : f.startTime <= nodes[j].startTime

(***************************************************************************)
(* SpecCoop: processSalmonRunData on a feed with a regular and a Big Run   *)
(* list.  The regular nodes are numbered (rule) 1.., the Big Run nodes     *)
(* from MaxCoop + 1 on.                                                    *)
(***************************************************************************)
BigList(w, n) == [i \in 1..n |-> Node(w[i][1], w[i][2], MaxCoop + i)]

CoopInit ==
  /\ clock \in 0..(SkipT + 1)
  /\ \E n \in 0..MaxCoop, m \in 0..MaxCoop :
       \E w \in [1..n -> SkipWindows], v \in [1..m -> SkipWindows] :
         pin = [fn |-> "coop", reg |-> NodeList(w, n), big |-> BigList(v, m)]
  /\ pout = NoPure
  /\ local = [rotationData |-> Null, lastUpdated |-> Missing,
              isOffline |-> "undefined",
              rdWrite |-> 0, luWrite |-> 0, ioWrite |-> 0, ioBegan |-> 0,
              lastTab |-> "unset"]
  /\ alarms = [smartRefresh |-> NotArmed, refreshRotations |-> NotArmed]
  /\ prefs = PrefsUnset
  /\ notes = {}
  /\ cyc = [c \in Cycles |-> IdleCycle]
  /\ last = NoneYet
  /\ writeSeq = 0
  /\ popup = NoPopup

CoopApply ==
  /\ pin.fn = "coop"
  /\ pout = NoPure
  /\ pout' = [fn |-> "coop",
              salmon |-> processSalmonRunData(
                           [EmptyFeed EXCEPT
                              !.coop = Coop(ListOf(pin.reg), ListOf(pin.big))],
                           clock)]
  /\ UNCHANGED <<clock, local, prefs, alarms, notes, cyc, last, writeSeq, pin,
                 popup>>

SpecCoop == CoopInit /\ [][CoopApply]_vars

\* r is the node i of the list all, tagged with its list of origin
IsCoopNode(r, all, i) ==
  /\ r # Null
  /\ r.rule = all[i].rule
  /\ Window(r) = Window(all[i])
  /\ r.isBigRun = (all[i].rule > MaxCoop)

\* C27: the regular and the Big Run nodes are selected from as one list.
\* The salmon current is a window containing now, from whichever list, and
\* null when neither list has one; next is a window with the earliest
\* start after now over both lists, and null when there is none; the
\* isBigRun flag of a selected entry tells the list its node came from.
C27_MergedCoop ==
  (pin.fn = "coop" /\ pout # NoPure) =>
    LET all == pin.big \o pin.reg
        cont == Containing(all, clock)
        upc == Upcoming(all, clock)
    IN \A r \in pout.salmon :
         IF cont = {} /\ upc = {} THEN r = createSalmonRunTestData(clock)
         ELSE /\ IF cont = {} THEN r.current = Null
                 ELSE \E i \in cont : IsCoopNode(r.current, all, i)
              /\ IF upc = {} THEN r.next = Null
                 ELSE \E i \in upc :
                        /\ IsCoopNode(r.next, all, i)
                        /\ \A j \in upc : all[i].startTime <= all[j].startTime

\* a regular shift [0,1) and a Big Run [1,2) at now = 0: the regular shift
\* is current, the Big Run is next
C27_Witness ==
  /\ pin.fn = "coop" /\ pout # NoPure
  /\ clock = 0
  /\ pin.reg = NodeList(<<(<<0, 1>>)>>, 1)
  /\ pin.big = BigList(<<(<<1, 2>>)>>, 1)
  /\ \A r \in pout.salmon :
       /\ r.current # Null /\ ~r.current.isBigRun /\ r.current.endTime = 1
       /\ r.next # Null /\ r.next.isBigRun /\ r.next.startTime = 1

(***************************************************************************)
(* SpecEvent: processEventSchedules on two event records, named 1 and 2,   *)
(* each with a list of time periods and with or without a                  *)
(* leagueMatchEvent.                                                       *)
(***************************************************************************)
PeriodList(w, n) == [j \in 1..n |-> [startTime |-> w[j][1], endTime |-> w[j][2]]]

EventRecord(name, hasEvent, periods) ==
  [shape |-> "ok", hasEvent |-> hasEvent, name |-> name,
   timePeriods |-> periods]

EventInit ==
  /\ clock \in 0..(SkipT + 1)
  /\ \E n \in 0..MaxCoop, m \in 0..MaxCoop, h1 \in BOOLEAN, h2 \in BOOLEAN :
       \E w \in [1..n -> SkipWindows], v \in [1..m -> SkipWindows] :
         pin = [fn |-> "events",
                events |-> <<EventRecord(1, h1, PeriodList(w, n)),
                             EventRecord(2, h2, PeriodList(v, m))>>]
  /\ pout = NoPure
  /\ local = [rotationData |-> Null, lastUpdated |-> Missing,
              isOffline |-> "undefined",
              rdWrite |-> 0, luWrite |-> 0, ioWrite |-> 0, ioBegan |-> 0,
              lastTab |-> "unset"]
  /\ alarms = [smartRefresh |-> NotArmed, refreshRotations |-> NotArmed]
  /\ prefs = PrefsUnset
  /\ notes = {}
  /\ cyc = [c \in Cycles |-> IdleCycle]
  /\ last = NoneYet
  /\ writeSeq = 0
  /\ popup = NoPopup

EventApply ==
  /\ pin.fn = "events"
  /\ pout = NoPure
  /\ pout' = [fn |-> "events",
              challenge |-> processEventSchedules(pin.events, clock)]
  /\ UNCHANGED <<clock, local, prefs, alarms, notes, cyc, last, writeSeq, pin,
                 popup>>

SpecEvent == EventInit /\ [][EventApply]_vars

\* the time periods of the events that have a leagueMatchEvent, as pairs
\* <<event, period>>
Candidates(events) ==
  {c \in (1..Len(events)) \X (1..MaxCoop + 1) :
     events[c[1]].hasEvent /\ c[2] <= Len(events[c[1]].timePeriods)}

PeriodOf(events, c) == events[c[1]].timePeriods[c[2]]

\* r is the period c with the name of the event it belongs to
IsPeriod(r, events, c) ==
  /\ r # Null
  /\ r.rule = events[c[1]].name
  /\ r.startTime = PeriodOf(events, c).startTime
  /\ r.endTime = PeriodOf(events, c).endTime

\* C28: every time period of every event is a candidate of its own.
\* current is a period containing now among all periods of all events
\* (null when there is none), next a period with the earliest start after
\* now among them (null when there is none); the selected rotation has the
\* period's start and end and the name of the event the period belongs to.
C28_PeriodsAreCandidates ==
  (pin.fn = "events" /\ pout # NoPure) =>
    LET ev == pin.events
        cont == {c \in Candidates(ev) :
                   /\ PeriodOf(ev, c).startTime <= clock
                   /\ clock < PeriodOf(ev, c).endTime}
        upc == {c \in Candidates(ev) : PeriodOf(ev, c).startTime > clock}
        r == pout.challenge
    IN /\ r # Throw
       /\ IF cont = {} THEN r.current = Null
          ELSE \E c \in cont : IsPeriod(r.current, ev, c)
       /\ IF upc = {} THEN r.next = Null
          ELSE \E c \in upc :
                 /\ IsPeriod(r.next, ev, c)
                 /\ \A d \in upc :
                      PeriodOf(ev, c).startTime <= PeriodOf(ev, d).startTime

\* event 1 with the period [1,2), event 2 with [1,2) and [0,1), at now = 0:
\* current is the second period of event 2, next the period of event 1
C28_Witness ==
  /\ pin.fn = "events" /\ pout # NoPure
  /\ clock = 0
  /\ pin.events = <<EventRecord(1, TRUE, PeriodList(<<(<<1, 2>>)>>, 1)),
                    EventRecord(2, TRUE,
                                PeriodList(<<(<<1, 2>>), (<<0, 1>>)>>, 2))>>
  /\ pout.challenge.current = [startTime |-> 0, endTime |-> 1, rule |-> 2]
  /\ pout.challenge.next = [startTime |-> 1, endTime |-> 2, rule |-> 1]

(***************************************************************************)
(* SpecBad: processRotationData on a feed one of whose lists holds a       *)
(* malformed node among three good ones, and on the feed with the good     *)
(* nodes alone.                                                            *)
(***************************************************************************)
\* the malformed node: a null entry, a null among its stages, a start or
\* an end that is no date
BadNodes ==
  {[shape |-> "null", startTime |-> Missing, endTime |-> Missing, rule |-> 4],
   [shape |-> "badStage", startTime |-> 0, endTime |-> 1, rule |-> 4],
   [shape |-> "ok", startTime |-> BadDate, endTime |-> 1, rule |-> 4],
   [shape |-> "ok", startTime |-> 0, endTime |-> BadDate, rule |-> 4]}

\* the feed whose list under key holds the nodes list, every other list
\* the nodes others
FeedWith(others, list, key) ==
  [FullFeed(others) EXCEPT
     ![key] = ListOf(IF key = "eventSchedules" THEN EventsEach(list)
                     ELSE list)]

BadInit ==
  /\ clock \in 0..(SkipT + 1)
  /\ \E w \in [1..3 -> SkipWindows], bad \in BadNodes, k \in 1..4,
        key \in DOMAIN KeyMode :
       pin = [fn |-> "bad", others |-> NodeList(w, 3), key |-> key,
              data |-> FeedWith(NodeList(w, 3),
                                InsertAt(NodeList(w, 3), k, bad), key)]
  /\ pout = NoPure
  /\ local = [rotationData |-> Null, lastUpdated |-> Missing,
              isOffline |-> "undefined",
              rdWrite |-> 0, luWrite |-> 0, ioWrite |-> 0, ioBegan |-> 0,
              lastTab |-> "unset"]
  /\ alarms = [smartRefresh |-> NotArmed, refreshRotations |-> NotArmed]
  /\ prefs = PrefsUnset
  /\ notes = {}
  /\ cyc = [c \in Cycles |-> IdleCycle]
  /\ last = NoneYet
  /\ writeSeq = 0
  /\ popup = NoPopup

\* line 314: processRotationData(apiData) || createTestData()
BadApply ==
  /\ pin.fn = "bad"
  /\ pout = NoPure
  /\ pout' = [fn |-> "bad",
              all |-> {IF b = Null THEN createTestData(clock) ELSE b :
                         b \in processRotationData(pin.data, clock)},
              rest |-> {IF b = Null THEN createTestData(clock) ELSE b :
                          b \in processRotationData(FullFeed(pin.others),
                                                    clock)}]
  /\ UNCHANGED <<clock, local, prefs, alarms, notes, cyc, last, writeSeq, pin,
                 popup>>

SpecBad == BadInit /\ [][BadApply]_vars

\* C25: with one malformed node in the list of one mode, the battle data
\* of the cycle is built from the feed, not the synthetic data; the mode's
\* current and next are those of the remaining nodes and the other modes
\* are what they are without the malformed node.
C25_BadNodeSkipped ==
  (pin.fn = "bad" /\ pout # NoPure) =>
    /\ createTestData(clock) \notin pout.all
    /\ pout.all = pout.rest

(***************************************************************************)
(* SpecNote: sendRotationNotifications applied to a new snapshot, the      *)
(* snapshot stored before it (or none) and the stored preferences.         *)
(***************************************************************************)
NoteCurrents == {Null} \cup {Rot(st, st + 1, "current") : st \in 0..MaxStart}

\* the challenge entry carries the regular rotation: modes (line 759) does
\* not list it, so no notification may come from it
NoteSnapshot(r, a, x, s) ==
  [regular |-> [current |-> r, next |-> Null],
   anarchy |-> [current |-> a, next |-> Null],
   xbattle |-> [current |-> x, next |-> Null],
   challenge |-> [current |-> r, next |-> Null],
   salmon |-> [current |-> s, next |-> Null],
   splatfest |-> Null]

\* nothing stored, everything on, one flag off, the global flag off or unset
NotePrefs ==
  {PrefsUnset, PrefsAllOn,
   [PrefsAllOn EXCEPT !.enableNotifications = "false"],
   [PrefsAllOn EXCEPT !.enableNotifications = "undefined"]}
    \cup {[PrefsAllOn EXCEPT ![NotifyModes[i].setting] = v] :
             i \in 1..Len(NotifyModes), v \in {"false", "undefined"}}

NoteInit ==
  /\ clock = 0
  /\ \/ local = [rotationData |-> Null, lastUpdated |-> Missing,
                 isOffline |-> "undefined",
                 rdWrite |-> 0, luWrite |-> 0, ioWrite |-> 0, ioBegan |-> 0,
                 lastTab |-> "unset"]
     \/ \E r, a, x, s \in NoteCurrents : local = Stored(NoteSnapshot(r, a, x, s))
  /\ \E r, a, x, s \in NoteCurrents :
       pin = [fn |-> "notify", new |-> NoteSnapshot(r, a, x, s)]
  /\ prefs \in NotePrefs
  /\ alarms = [smartRefresh |-> NotArmed, refreshRotations |-> NotArmed]
  /\ notes = {}
  /\ cyc = [c \in Cycles |-> IdleCycle]
  /\ last = NoneYet
  /\ writeSeq = 0
  /\ pout = NoPure
  /\ popup = NoPopup

\* sendRotationNotifications(newRotationData, oldRotationData), line 336
NoteApply ==
  /\ pin.fn = "notify"
  /\ pout = NoPure
  /\ LET ids == sendRotationNotifications(pin.new, local.rotationData, prefs)
     IN /\ notes' = notes \cup ids
        /\ pout' = [fn |-> "notify", ids |-> ids]
  /\ UNCHANGED <<clock, local, prefs, alarms, cyc, last, writeSeq, pin,
                 popup>>

SpecNote == NoteInit /\ [][NoteApply]_vars

NoteApplied == pin.fn = "notify" /\ pout # NoPure

FlagOf(m) ==
  CASE m = "regular" -> "notifyRegular"
    [] m = "anarchy" -> "notifyAnarchy"
    [] m = "xbattle" -> "notifyXbattle"
    [] m = "salmon" -> "notifySalmon"

\* C11: a notification is created for a mode exactly when the global flag
\* and the mode's flag are enabled, the new snapshot has a current for the
\* mode, and the old snapshot has none or one with another startTime; its
\* id carries the mode and the new current.startTime, and no mode without
\* a flag is notified.
C11_NotifyIff ==
  NoteApplied =>
    /\ \A m \in {"regular", "anarchy", "xbattle", "salmon"} :
         LET new == CurrentOf(pin.new, m)
             old == CurrentOf(local.rotationData, m)
         IN (\E id \in pout.ids : id[1] = m) <=>
              /\ prefs.enableNotifications = "true"
              /\ prefs[FlagOf(m)] = "true"
              /\ new # Null
              /\ (old = Null \/ old.startTime # new.startTime)
    /\ \A id \in pout.ids :
         /\ id[1] \in {"regular", "anarchy", "xbattle", "salmon"}
         /\ id[2] = CurrentOf(pin.new, id[1]).startTime

\* one call: regular unchanged, anarchy moved on, salmon new without an old
\* current, xbattle switched off
C11_Witness ==
  /\ NoteApplied
  /\ local.rotationData # Null
  /\ CurrentOf(local.rotationData, "salmon") = Null
  /\ prefs = [PrefsAllOn EXCEPT !.notifyXbattle = "false"]
  /\ CurrentOf(pin.new, "xbattle") # Null
  /\ CurrentOf(local.rotationData, "xbattle") = Null
  /\ CurrentOf(local.rotationData, "regular") = CurrentOf(pin.new, "regular")
  /\ pout.ids = {<<"anarchy", 1>>, <<"salmon", 0>>}

(***************************************************************************)
(* The popup page (popup.js).  popup holds the variables of its script,    *)
(* the state of the Refresh button, what the two rotation containers show  *)
(* and the requests awaiting their reply:                                  *)
(*   disabled                 elements.refreshBtn.disabled                 *)
(*   isRefreshing, hasTriggeredAutoRefresh   the script's flags            *)
(*   remaining                seconds left of the cooldown interval, 0     *)
(*                            when refreshCooldownInterval is null         *)
(*   ticking                  countdownInterval is set                     *)
(*   view                     "initial", "loading", "data" or "error"      *)
(*   shown                    data-end-time of the current rotation's      *)
(*                            countdown and data-start-time of the next's  *)
(*   pending                  sendMessage calls not yet settled            *)
(*   inbox                    replies the service worker has sent and the  *)
(*                            page has not handled yet: how many with      *)
(*                            success true (ok) and false (fail)           *)
(* and as ghosts whether the step taken last was a click on Refresh or a   *)
(* failed reply ("click", "failure", else "other": event), the boundary of *)
(* last automatic refresh with the number of requests sent for it (auto),  *)
(* and the cooldown ticks since the last successful refresh (okTicks).     *)
(* The popup shows the regular tab.  The service worker is seen from the   *)
(* popup: a request is answered with fresh data, with the cached data or   *)
(* with a failure.  In SpecPopup the clock counts rotation lengths; the    *)
(* intervals of the page tick in between.                                  *)
(***************************************************************************)
CooldownSeconds == 30

NoShown == [end |-> Missing, start |-> Missing]

\* the page after DOMContentLoaded (lines 32-37)
OpenedPopup ==
  [open |-> TRUE, disabled |-> FALSE, isRefreshing |-> FALSE,
   hasTriggeredAutoRefresh |-> FALSE, remaining |-> 0, ticking |-> FALSE,
   view |-> "initial", shown |-> NoShown, pending |-> 0,
   inbox |-> [ok |-> 0, fail |-> 0],
   event |-> "none", auto |-> [boundary |-> Missing, count |-> 0],
   okTicks |-> CooldownSeconds]

\* refreshData up to its await (lines 426-432); the guard of line 424 is
\* the caller's
SendRefresh(p) ==
  [p EXCEPT !.isRefreshing = TRUE, !.view = "loading", !.shown = NoShown,
            !.disabled = TRUE, !.pending = @ + 1]

\* remaining <= 0 of a countdown element: new Date(t).getTime() - now <= 0
Ended(t, now) == t # Missing /\ ~(DateMs(t) # NaN /\ DateMs(t) - now > 0)

\* the boundary an automatic refresh is sent for
BoundaryOf(shown, now) ==
  IF Ended(shown.end, now) THEN shown.end ELSE shown.start

updateCountdowns(p, now) ==
  LET anyEnded == /\ p.view = "data"
                  /\ Ended(p.shown.end, now) \/ Ended(p.shown.start, now)
  IN IF anyEnded /\ ~p.hasTriggeredAutoRefresh
       THEN LET b == BoundaryOf(p.shown, now)
            IN SendRefresh(
                 [p EXCEPT !.hasTriggeredAutoRefresh = TRUE,
                           \* ghost: one request, or more than one
                           !.auto = IF p.auto.boundary = b
                                      THEN [boundary |-> b, count |-> 2]
                                    ELSE [boundary |-> b, count |-> 1]])
     ELSE p

\* updateRotationDisplay(data) for the regular tab, with the
\* startCountdownTimer it ends in (lines 478-530, 952-963)
updateRotationDisplay(p, data, now) ==
  LET current == CurrentOf(data, "regular")
      next == NextOf(data, "regular")
  IN updateCountdowns(
       [p EXCEPT !.view = "data",
                 !.shown = [end |-> IF current = Null THEN Missing
                                    ELSE current.endTime,
                            start |-> IF next = Null THEN Missing
                                      ELSE next.startTime],
                 !.isRefreshing = FALSE,
                 !.ticking = TRUE], now)

displayRotationData(p, st, now) ==
  IF st.rotationData # Null THEN updateRotationDisplay(p, st.rotationData, now)
  ELSE [p EXCEPT !.view = "loading", !.shown = NoShown]

startRefreshCooldown(p, seconds) ==
  [p EXCEPT !.disabled = TRUE, !.remaining = seconds]

(***************************************************************************)
(* SpecPopup: the popup page and the replies of the service worker         *)
(***************************************************************************)
\* a stored snapshot whose regular rotation runs over [st, st + 1)
PopupSnapshot(st, withNext) ==
  [regular |-> [current |-> Rot(st, st + 1, "current"),
                next |-> IF withNext THEN Rot(st + 1, st + 2, "next")
                         ELSE Null],
   anarchy |-> EmptyState, xbattle |-> EmptyState, challenge |-> EmptyState,
   salmon |-> EmptyState, splatfest |-> Null]

PopupInit ==
  /\ clock = 0
  /\ local \in {[rotationData |-> Null, lastUpdated |-> Missing,
                  isOffline |-> "undefined",
                  rdWrite |-> 0, luWrite |-> 0, ioWrite |-> 0, ioBegan |-> 0,
                  lastTab |-> "unset"],
                 Stored(PopupSnapshot(0, TRUE)),
                 Stored(PopupSnapshot(0, FALSE))}
  /\ popup = OpenedPopup
  /\ alarms = [smartRefresh |-> NotArmed, refreshRotations |-> NotArmed]
  /\ prefs = PrefsUnset
  /\ notes = {}
  /\ cyc = [c \in Cycles |-> IdleCycle]
  /\ last = NoneYet
  /\ writeSeq = 0
  /\ pin = NoPure
  /\ pout = NoPure

\* displayRotationData() when the page opens (line 67)
Display ==
  /\ popup.open
  /\ popup.view = "initial"
  /\ popup' = [displayRotationData(popup, local, clock) EXCEPT
                 !.event = "other"]
  /\ popup'.pending <= MaxPending
  /\ UNCHANGED <<clock, local, prefs, alarms, notes, cyc, last, writeSeq, pin,
                 pout>>

\* mutant: the store is emptied before lastTab is set
SetLastTabCleared(st, mode) ==
  [st EXCEPT !.lastTab = mode, !.rotationData = Null,
             !.lastUpdated = Missing, !.isOffline = "undefined"]

\* chrome.storage.local.set({ lastTab: currentMode }) (line 112)
SetLastTab(st, mode) == [st EXCEPT !.lastTab = mode]

\* a click on the tab button of the tab shown (lines 95-115): the tab is
\* stored and the data displayed again
TabClick ==
  /\ popup.open
  /\ local' = SetLastTab(local, "regular")
  /\ popup' = [displayRotationData(popup, local, clock) EXCEPT
                 !.event = "other"]
  /\ popup'.pending <= MaxPending
  /\ UNCHANGED <<clock, prefs, alarms, notes, cyc, last, writeSeq, pin, pout>>

\* the settings object of saveNotificationSettings (lines 322-328): every
\* flag is written as a boolean
CheckedSettings(checked) ==
  [enableNotifications |-> IF checked THEN "true" ELSE "false",
   notifyRegular |-> IF checked THEN "true" ELSE "false",
   notifyAnarchy |-> IF checked THEN "true" ELSE "false",
   notifyXbattle |-> IF checked THEN "true" ELSE "false",
   notifySalmon |-> IF checked THEN "true" ELSE "false"]

\* a checkbox of the settings panel changes (lines 120-139, 321-336); the
\* boxes are all checked or all unchecked
saveNotificationSettings(checked) ==
  /\ popup.open
  /\ prefs' = CheckedSettings(checked)
  /\ prefs' # prefs
  /\ UNCHANGED <<clock, local, alarms, notes, cyc, last, writeSeq, pin, pout,
                 popup>>

\* a click on the Refresh button (line 72); a disabled button receives no
\* click, and the listener hands its event to refreshData as
\* bypassCooldown
ClickRefresh ==
  /\ popup.open
  /\ ~popup.disabled
  /\ popup.pending < MaxPending
  /\ popup' = [SendRefresh(popup) EXCEPT !.event = "click"]
  /\ UNCHANGED <<clock, local, prefs, alarms, notes, cyc, last, writeSeq, pin,
                 pout>>

\* the countdown interval fires (line 962)
CountdownInterval ==
  /\ popup.open
  /\ popup.ticking
  /\ popup' = [updateCountdowns(popup, clock) EXCEPT !.event = "other"]
  /\ popup'.pending <= MaxPending
  /\ UNCHANGED <<clock, local, prefs, alarms, notes, cyc, last, writeSeq, pin,
                 pout>>

\* the cooldown interval fires (lines 461-471)
CooldownInterval ==
  /\ popup.open
  /\ popup.remaining > 0
  /\ popup' = [popup EXCEPT
                 !.remaining = @ - 1,
                 !.disabled = IF popup.remaining - 1 <= 0 THEN FALSE ELSE @,
                 !.okTicks = IF @ < CooldownSeconds THEN @ + 1 ELSE @,
                 !.event = "other"]
  /\ UNCHANGED <<clock, local, prefs, alarms, notes, cyc, last, writeSeq, pin,
                 pout>>

\* the success branch of refreshData (lines 433-436)
RefreshSucceeded(p, st, now) ==
  startRefreshCooldown(
    displayRotationData([p EXCEPT !.hasTriggeredAutoRefresh = FALSE], st, now),
    CooldownSeconds)

\* mutant: the catch block leaves the button disabled
RefreshFailedStuck(p) ==
  [p EXCEPT !.isRefreshing = FALSE, !.view = "error", !.shown = NoShown]

\* mutant: the catch block clears the auto-refresh latch
RefreshFailedUnlatched(p) ==
  [p EXCEPT !.isRefreshing = FALSE, !.view = "error", !.shown = NoShown,
            !.disabled = FALSE, !.hasTriggeredAutoRefresh = FALSE]

\* the catch block of refreshData (lines 440-447)
RefreshFailed(p) ==
  [p EXCEPT !.isRefreshing = FALSE, !.view = "error", !.shown = NoShown,
            !.disabled = FALSE]

\* The service worker runs fetchAllData for a request of the page and
\* replies.  "fresh": the fetch succeeds and a snapshot whose rotation
\* contains now is persisted; "stale": the fetch fails, the cache is still
\* valid and the offline flag is set; "hard": the fetch fails without a
\* valid cache, nothing is written and the reply is { success: false }.
WorkerFetch(kind) ==
  /\ popup.open
  /\ popup.inbox.ok + popup.inbox.fail < popup.pending
  /\ LET valid == /\ local.rotationData # Null
                  /\ isDataStillValid(local.rotationData, clock)
     IN \/ /\ kind = "fresh"
           /\ local' = PersistWrite(local, PopupSnapshot(clock, TRUE), clock, 1)
           /\ popup' = [popup EXCEPT !.inbox.ok = @ + 1]
        \/ /\ kind = "stale"
           /\ valid
           /\ local' = [local EXCEPT !.isOffline = "true"]
           /\ popup' = [popup EXCEPT !.inbox.ok = @ + 1]
        \/ /\ kind = "hard"
           /\ ~valid
           /\ local' = local
           /\ popup' = [popup EXCEPT !.inbox.fail = @ + 1]
  /\ UNCHANGED <<clock, prefs, alarms, notes, cyc, last, writeSeq, pin, pout>>

\* a reply { success: true } reaches refreshData (lines 433-436)
ReplySuccess ==
  /\ popup.open
  /\ popup.inbox.ok > 0
  /\ popup' = [RefreshSucceeded([popup EXCEPT !.pending = @ - 1,
                                              !.inbox.ok = @ - 1],
                                local, clock) EXCEPT
                 !.event = "other", !.okTicks = 0]
  /\ popup'.pending <= MaxPending
  /\ UNCHANGED <<clock, local, prefs, alarms, notes, cyc, last, writeSeq, pin,
                 pout>>

\* a reply { success: false } reaches refreshData, or the sendMessage of a
\* request the service worker has not answered rejects (lines 437-447)
ReplyFailure(how) ==
  /\ popup.open
  /\ \/ /\ how = "false"
        /\ popup.inbox.fail > 0
        /\ popup' = [RefreshFailed([popup EXCEPT !.pending = @ - 1,
                                                 !.inbox.fail = @ - 1]) EXCEPT
                       !.event = "failure"]
     \/ /\ how = "rejects"
        /\ popup.inbox.ok + popup.inbox.fail < popup.pending
        /\ popup' = [RefreshFailed([popup EXCEPT !.pending = @ - 1]) EXCEPT
                       !.event = "failure"]
  /\ UNCHANGED <<clock, local, prefs, alarms, notes, cyc, last, writeSeq, pin,
                 pout>>

\* the steps of the page itself
PopupStep ==
  \/ Display
  \/ TabClick
  \/ \E checked \in BOOLEAN : saveNotificationSettings(checked)
  \/ ClickRefresh
  \/ CountdownInterval
  \/ CooldownInterval
  \/ ReplySuccess
  \/ \E how \in {"false", "rejects"} : ReplyFailure(how)

PopupNext ==
  \/ Tick
  \/ PopupStep
  \/ \E kind \in {"fresh", "stale", "hard"} : WorkerFetch(kind)

SpecPopup == PopupInit /\ [][PopupNext]_vars

\* C13: for one rotation boundary the countdown loop sends at most one
\* automatic refresh request, however many ticks elapse and whatever the
\* request's outcome.
C13_OneAutoRefreshPerBoundary == popup.open => popup.auto.count <= 1

\* C17: a click on the Refresh button starts a request only when no other
\* request of the popup is in flight and 30 cooldown ticks have elapsed
\* since the last successful refresh.
C17_Cooldown ==
  (popup.open /\ popup.event = "click") =>
    /\ popup.pending = 1
    /\ popup.okTicks = CooldownSeconds

\* C18: when a refresh fails the popup shows its error state and the
\* Refresh button is enabled again, so that a click starts a new request.
C18_FailureAllowsRetry ==
  (popup.open /\ popup.event = "failure") =>
    /\ popup.view = "error"
    /\ ~popup.disabled
    /\ ~popup.isRefreshing

\* a manual refresh, the only request in flight, has just failed
C18_Witness ==
  /\ popup.open /\ popup.event = "failure"
  /\ popup.pending = 0
  /\ popup.auto.count = 0
  /\ popup.view = "error" /\ ~popup.disabled

\* C30: the page only reads the snapshot.  No step of the page (opening,
\* tab click, settings change, refresh click, countdown or cooldown tick,
\* handling a reply) changes rotationData, lastUpdated or isOffline; in the
\* local store a step of the page changes at most lastTab, and in the
\* synced store it writes the five notification flags.
C30_PopupOnlyReads ==
  [][PopupStep =>
       /\ local'.rotationData = local.rotationData
       /\ local'.lastUpdated = local.lastUpdated
       /\ local'.isOffline = local.isOffline
       /\ local' = [local EXCEPT !.lastTab = local'.lastTab]
       /\ DOMAIN prefs' = DOMAIN PrefsUnset]_vars

\* the tab and the settings have been stored beside a snapshot that the
\* service worker wrote for a refresh of the page
C30_Witness ==
  /\ popup.open /\ popup.view = "data"
  /\ local.lastTab = "regular"
  /\ prefs = CheckedSettings(TRUE)
  /\ local.rotationData = PopupSnapshot(1, TRUE)
  /\ local.lastUpdated = 1
\* C36: a step of the page that sends an automatic refresh leaves the
\* latch set, and while the latch is set every step other than the
\* handling of a successful reply keeps it set and sends no automatic
\* refresh, whether the request is still pending or has failed.
C36_Latch ==
  [][(popup.open /\ popup' # popup) =>
       LET succeeded == popup'.inbox.ok < popup.inbox.ok
           replied == IF succeeded THEN 1 ELSE 0
           autoSent == /\ popup'.event \notin {"click", "failure"}
                       /\ popup'.pending > popup.pending - replied
       IN /\ autoSent => popup'.hasTriggeredAutoRefresh
          /\ (popup.hasTriggeredAutoRefresh /\ ~succeeded) =>
               (popup'.hasTriggeredAutoRefresh /\ ~autoSent)]_vars

\* the automatic refresh has failed and the ended rotation is displayed
\* again with its countdown running: the latch is set and no request is in
\* flight
C36_Witness ==
  /\ popup.open /\ popup.hasTriggeredAutoRefresh
  /\ popup.view = "data" /\ popup.ticking
  /\ Ended(popup.shown.end, clock)
  /\ popup.pending = 0
  /\ popup.auto.count = 1

(***************************************************************************)
(* SpecInstall: the chrome.runtime.onInstalled listener.  pin.reason is    *)
(* details.reason; pout is the listener: where it stands (pc), what its    *)
(* read of enableNotifications returned (existing), and as ghosts whether  *)
(* it has written the defaults (wrote), how many initial fetches it has    *)
(* scheduled (timeouts) and whether the timeout has fired (fired).  The    *)
(* popup page may be open and save the settings between the listener's     *)
(* awaits.                                                                 *)
(***************************************************************************)
\* the object of lines 227-233
DefaultSettings ==
  [enableNotifications |-> "false", notifyRegular |-> "false",
   notifyAnarchy |-> "false", notifyXbattle |-> "false",
   notifySalmon |-> "false"]

\* mutant: the defaults are considered on every event
ChecksSettingsAlways(reason) == TRUE

\* details.reason === 'install' (line 222)
ChecksSettings(reason) == reason = "install"

InstallInit ==
  /\ clock = 0
  /\ pin \in [fn : {"onInstalled"},
               reason : {"install", "update", "chrome_update"}]
  /\ pout = [fn |-> "onInstalled", pc |-> "event", existing |-> "unread",
             wrote |-> FALSE, timeouts |-> 0, fired |-> FALSE]
  /\ prefs \in [DOMAIN PrefsUnset -> {"true", "false", "undefined"}]
  /\ local = [rotationData |-> Null, lastUpdated |-> Missing,
              isOffline |-> "undefined",
              rdWrite |-> 0, luWrite |-> 0, ioWrite |-> 0, ioBegan |-> 0,
              lastTab |-> "unset"]
  /\ alarms = [smartRefresh |-> NotArmed, refreshRotations |-> NotArmed]
  /\ notes = {}
  /\ cyc = [c \in Cycles |-> IdleCycle]
  /\ last = NoneYet
  /\ writeSeq = 0
  /\ popup = OpenedPopup

\* the listener is called (lines 218-224): on an install it issues its
\* read of the synced store, otherwise it goes on to line 238
InstalledEvent ==
  /\ pout.pc = "event"
  /\ pout' = IF ChecksSettings(pin.reason)
               THEN [pout EXCEPT !.pc = "get"]
             ELSE [pout EXCEPT !.pc = "done", !.timeouts = @ + 1]
  /\ UNCHANGED <<clock, local, prefs, alarms, notes, cyc, last, writeSeq, pin,
                 popup>>

\* the read resolves (lines 224-226): the write of the defaults is issued,
\* or the listener goes on to line 238
SettingsRead ==
  /\ pout.pc = "get"
  /\ pout' = IF prefs.enableNotifications = "undefined"
               THEN [pout EXCEPT !.pc = "set",
                                 !.existing = prefs.enableNotifications]
             ELSE [pout EXCEPT !.pc = "done",
                               !.existing = prefs.enableNotifications,
                               !.timeouts = @ + 1]
  /\ UNCHANGED <<clock, local, prefs, alarms, notes, cyc, last, writeSeq, pin,
                 popup>>

\* chrome.storage.sync.set lands (lines 227-233), then line 238
DefaultsWritten ==
  /\ pout.pc = "set"
  /\ prefs' = [k \in DOMAIN prefs |->
                 IF k \in DOMAIN DefaultSettings THEN DefaultSettings[k]
                 ELSE prefs[k]]
  /\ pout' = [pout EXCEPT !.pc = "done", !.wrote = TRUE, !.timeouts = @ + 1]
  /\ UNCHANGED <<clock, local, alarms, notes, cyc, last, writeSeq, pin,
                 popup>>

\* the timeout of line 238 fires: fetchAllData is called
InitialFetch ==
  /\ pout.pc = "done"
  /\ pout.timeouts > 0 /\ ~pout.fired
  /\ pout' = [pout EXCEPT !.fired = TRUE]
  /\ StartCycle(1, "timeout")
  /\ UNCHANGED <<clock, local, prefs, alarms, notes, last, writeSeq, pin,
                 popup>>

InstallNext ==
  \/ InstalledEvent
  \/ SettingsRead
  \/ DefaultsWritten
  \/ InitialFetch
  \/ \E checked \in BOOLEAN : saveNotificationSettings(checked)

SpecInstall == InstallInit /\ [][InstallNext]_vars

\* C39: a step of the listener changes the synced store only by writing
\* the five defaults, all false; a listener that has finished has written
\* them exactly when the event was an install and its read found
\* enableNotifications not stored; and it has scheduled one initial fetch.
C39_InstallDefaults ==
  /\ [][(pout' # pout) =>
          IF pout'.wrote /\ ~pout.wrote THEN prefs' = DefaultSettings
          ELSE prefs' = prefs]_vars
  /\ []((pout.fn = "onInstalled" /\ pout.pc = "done") =>
          /\ pout.wrote <=>
               (pin.reason = "install" /\ pout.existing = "undefined")
          /\ pout.timeouts = 1)
  /\ [](pout.fn = "onInstalled" => pout.timeouts <= 1)

\* an install over a store without enableNotifications but with another
\* flag set: the defaults are written and the initial fetch has started
C39_Witness ==
  /\ pout.fn = "onInstalled" /\ pin.reason = "install"
  /\ pout.pc = "done" /\ pout.wrote /\ pout.fired
  /\ prefs = DefaultSettings
  /\ cyc[1].pc = "fetching" /\ cyc[1].trigger = "timeout"
====
